---- MODULE Spec2Model ----
(***************************************************************************)
(* Compound detection in mass-spectrometry scans.                          *)
(*                                                                         *)
(*   src/plot_compounds_json.py                                            *)
(*       ReferenceDataManager, CompoundDetector, SpectrumAnalyzer,         *)
(*       ComprehensiveCompoundAnalyzer                                     *)
(*   src/02_Python_Analysis_Scripts/Plot_Compounds_Validation_Analysis.py  *)
(*       PeakDetector                                                      *)
(*                                                                         *)
(* Numbers.  m/z values and intensities are integers.  One m/z unit is     *)
(* 0.005 Da, so that with a target of 100000 units (500 Da) a distance of  *)
(* d units is exactly 10*d ppm; the floating point comparisons of the      *)
(* code are modelled as exact comparisons of rationals (cross-multiplied). *)
(* Strings that the code searches with "in" are sequences of characters,   *)
(* so that the substring tests are computed and not assumed.               *)
(***************************************************************************)
EXTENDS Integers, Sequences, FiniteSets, TLC

VARIABLES
    pc,                 \* position of the running operation
    \* one call of a locator / of the validator
    mz_array,           \* spectrum.mz
    intensity_array,    \* spectrum.i
    target_mz,          \* find_true_peak_maximum: target_mz
    tolerance,          \* find_true_peak_maximum: tolerance
    compound_config,    \* the compound configuration passed to the detector
    reference_data,     \* ReferenceDataManager.reference_data
    detection,          \* result of detect_compound_in_spectrum
    corrected_peak,     \* result of find_true_peak_maximum
    validation,         \* result of validate_against_reference
    earlier,            \* what the same calls returned the first time
    \* analyze_sample_for_compounds
    mzml_file,          \* what pymzml.run.Reader yields for the file
    compounds_config,   \* the configurations handed to the sweep, in order
    ms1_spectra,        \* the collected MS1 spectra
    formula_idx,        \* position of the compound loop
    cursor,             \* position of the spectrum loop
    all_detections,     \* accumulator of the current compound
    detection_count,    \* raw detections of the current compound
    results,            \* results dict of the sample
    returned,           \* the value analyze_sample_for_compounds returned
    examined,           \* locator calls per (compound, spectrum)
    \* analyze_all_samples
    mzml_files,         \* sample -> content of its mzML file
    analysis_results,   \* ComprehensiveCompoundAnalyzer.analysis_results
    phase,              \* 1 priority compounds, 2 other compounds
    sample_idx,         \* position in SAMPLE_MAPPING
    successful_plots,
    failed_plots,
    plot_count,
    top_rt_from_pbse1,
    processed,          \* (phase, sample) pairs whose loop body has run
    results_data,       \* _save_analysis_results: the rows handed to the DataFrame
    \* _load_all_references
    data,               \* json.load(f)
    load_idx,           \* position in data['formulas']
    compound_count,
    \* CleanCompoundPlotter.plot_all_compounds
    validated_results,  \* CompoundDataLoader.validated_results
    compound_idx        \* position in COMPOUNDS

locVars   == <<mz_array, intensity_array, target_mz, tolerance, compound_config,
               detection, corrected_peak, validation, earlier>>
sweepVars == <<mzml_file, compounds_config, ms1_spectra, formula_idx, cursor,
               all_detections, detection_count, results, returned, examined>>
runVars   == <<mzml_files, analysis_results, phase, sample_idx, successful_plots,
               failed_plots, plot_count, top_rt_from_pbse1, processed,
               results_data>>
loadVars  == <<data, load_idx, compound_count>>
plotterVars == <<validated_results, compound_idx>>
vars      == <<pc, locVars, reference_data, sweepVars, runVars, loadVars, plotterVars>>

(***************************************************************************)
(* Values                                                                  *)
(***************************************************************************)
\* Python's None.
None == [type |-> "None"]

\* A JSON number / a value of another JSON type, as json.load returns them.
Num(v) == [type |-> "num", v |-> v]
IsNum(x) == x.type = "num"

Abs(x) == IF x < 0 THEN -x ELSE x

RECURSIVE SeqMax(_)
SeqMax(s) ==
    IF Len(s) = 1 THEN s[1]
    ELSE LET m == SeqMax(Tail(s)) IN IF s[1] >= m THEN s[1] ELSE m

\* np.argmax: the first index of the maximum (1-based here).
ArgMax(s) == CHOOSE i \in 1..Len(s) :
                 /\ \A j \in 1..Len(s) : s[j] <= s[i]
                 /\ \A j \in 1..(i - 1) : s[j] < s[i]

\* sub in s, for Python strings
Contains(sub, s) ==
    \E i \in 0..(Len(s) - Len(sub)) : SubSeq(s, i + 1, i + Len(sub)) = sub

\* arr[mask]: the elements at the indices of idx, in order
RECURSIVE Pick(_, _)
Pick(arr, idx) ==
    IF idx = <<>> THEN <<>> ELSE <<arr[idx[1]]>> \o Pick(arr, Tail(idx))

(***************************************************************************)
(* scipy.signal.find_peaks as the two locators call it.                    *)
(***************************************************************************)
RECURSIVE PlateauEnd(_, _, _)
PlateauEnd(x, i, ahead) ==
    IF ahead < Len(x) /\ x[ahead] = x[i] THEN PlateauEnd(x, i, ahead + 1) ELSE ahead

\* _local_maxima_1d: midpoints of the interior plateaus that rise strictly on
\* the left and fall strictly on the right; the first and the last sample are
\* never maxima.
RECURSIVE LocalMaximaFrom(_, _)
LocalMaximaFrom(x, i) ==
    IF i >= Len(x) THEN <<>>
    ELSE IF x[i - 1] < x[i]
         THEN LET ahead == PlateauEnd(x, i, i + 1) IN
              IF x[ahead] < x[i]
              THEN <<(i + ahead - 1) \div 2>> \o LocalMaximaFrom(x, ahead + 1)
              ELSE LocalMaximaFrom(x, i + 1)
         ELSE LocalMaximaFrom(x, i + 1)

LocalMaxima(x) == LocalMaximaFrom(x, 2)

\* height=h with h = hNum/hDen: keep the peaks with x[p] >= h
SelectByHeight(x, peaks, hNum, hDen) ==
    SelectSeq(peaks, LAMBDA p : hDen * x[p] >= hNum)

\* _select_by_peak_distance: peaks are visited from the highest to the lowest
\* (argsort of the heights, walked backwards: among equal heights the later
\* peak first) and a kept peak removes every peak closer than distance.
RECURSIVE DistanceLoop(_, _, _, _, _)
DistanceLoop(x, peaks, distance, todo, keep) ==
    IF todo = {} THEN keep
    ELSE LET j == CHOOSE a \in todo : \A b \in todo :
                      \/ x[peaks[b]] < x[peaks[a]]
                      \/ (x[peaks[b]] = x[peaks[a]] /\ b <= a)
         IN  IF ~keep[j]
             THEN DistanceLoop(x, peaks, distance, todo \ {j}, keep)
             ELSE DistanceLoop(x, peaks, distance, todo \ {j},
                      [k \in DOMAIN keep |->
                          IF k # j /\ Abs(peaks[j] - peaks[k]) < distance
                          THEN FALSE ELSE keep[k]])

SelectByDistance(x, peaks, distance) ==
    LET keep == DistanceLoop(x, peaks, distance, DOMAIN peaks,
                             [k \in DOMAIN peaks |-> TRUE])
        idx  == SelectSeq([k \in DOMAIN peaks |-> k], LAMBDA k : keep[k])
    IN  Pick(peaks, idx)

\* _peak_prominences (wlen=None): the lowest sample on each side before a
\* sample higher than the peak (or the end of the signal)
RECURSIVE SideMin(_, _, _, _, _)
SideMin(x, peak, i, step, cur) ==
    IF i >= 1 /\ i <= Len(x) /\ x[i] <= x[peak]
    THEN SideMin(x, peak, i + step, step, IF x[i] < cur THEN x[i] ELSE cur)
    ELSE cur

Prominence(x, peak) ==
    LET left_min  == SideMin(x, peak, peak, -1, x[peak])
        right_min == SideMin(x, peak, peak, 1, x[peak])
    IN  x[peak] - (IF left_min >= right_min THEN left_min ELSE right_min)

SelectByProminence(x, peaks, pNum, pDen) ==
    SelectSeq(peaks, LAMBDA p : pDen * Prominence(x, p) >= pNum)

\* find_peaks(x, height=hNum/hDen, distance=distance, prominence=pNum/pDen):
\* the conditions are applied in scipy's order height, distance, prominence.
find_peaks(x, hNum, hDen, distance, pNum, pDen) ==
    SelectByProminence(x,
        SelectByDistance(x,
            SelectByHeight(x, LocalMaxima(x), hNum, hDen), distance),
        pNum, pDen)

(***************************************************************************)
(* The search window: mask = (mz >= target - tol) & (mz <= target + tol)   *)
(***************************************************************************)
\* mutant: the upper bound of the window is not applied
WindowIndices_NoUpperBound(mz, target, tol) ==
    SelectSeq([k \in DOMAIN mz |-> k], LAMBDA k : mz[k] >= target - tol)

\* mutant: the window is half as wide
WindowIndices_HalfTolerance(mz, target, tol) ==
    SelectSeq([k \in DOMAIN mz |-> k],
              LAMBDA k : 2 * mz[k] >= 2 * target - tol /\ 2 * mz[k] <= 2 * target + tol)

WindowIndices(mz, target, tol) ==
    SelectSeq([k \in DOMAIN mz |-> k],
              LAMBDA k : mz[k] >= target - tol /\ mz[k] <= target + tol)

(***************************************************************************)
(* PeakDetector.find_true_peak_maximum                                     *)
(***************************************************************************)
Peak(mz, intensity, corrected) ==
    [type |-> "peak", mz |-> mz, intensity |-> intensity, corrected |-> corrected]

\* mutant: without the fallback to the simple maximum
find_true_peak_maximum_NoFallback(mz, inten, target, tol) ==
    LET idx == WindowIndices(mz, target, tol) IN
    IF idx = <<>> THEN None
    ELSE LET region_mz        == Pick(mz, idx)
             region_intensity == Pick(inten, idx)
             top              == SeqMax(region_intensity)
             peak_indices     == IF Len(region_intensity) > 3
                                 THEN find_peaks(region_intensity, top, 10, 3, top, 20)
                                 ELSE <<>>
         IN  IF peak_indices # <<>>
             THEN LET best_peak_idx ==
                          peak_indices[ArgMax(Pick(region_intensity, peak_indices))]
                  IN  Peak(region_mz[best_peak_idx],
                           region_intensity[best_peak_idx], TRUE)
             ELSE None

\* mutant: the fallback takes the last sample of maximal intensity
find_true_peak_maximum_LastMaximum(mz, inten, target, tol) ==
    LET idx == WindowIndices(mz, target, tol) IN
    IF idx = <<>> THEN None
    ELSE LET region_mz        == Pick(mz, idx)
             region_intensity == Pick(inten, idx)
             top              == SeqMax(region_intensity)
             peak_indices     == IF Len(region_intensity) > 3
                                 THEN find_peaks(region_intensity, top, 10, 3, top, 20)
                                 ELSE <<>>
         IN  IF peak_indices # <<>>
             THEN LET best_peak_idx ==
                          peak_indices[ArgMax(Pick(region_intensity, peak_indices))]
                  IN  Peak(region_mz[best_peak_idx],
                           region_intensity[best_peak_idx], TRUE)
             ELSE LET max_idx == CHOOSE k \in DOMAIN region_intensity :
                                     /\ region_intensity[k] = top
                                     /\ \A j \in DOMAIN region_intensity :
                                            region_intensity[j] = top => j <= k
                  IN  Peak(region_mz[max_idx], region_intensity[max_idx], FALSE)

\* mutant: the fallback takes the first sample of the window
find_true_peak_maximum_FirstInWindow(mz, inten, target, tol) ==
    LET idx == WindowIndices(mz, target, tol) IN
    IF idx = <<>> THEN None
    ELSE LET region_mz        == Pick(mz, idx)
             region_intensity == Pick(inten, idx)
             top              == SeqMax(region_intensity)
             peak_indices     == IF Len(region_intensity) > 3
                                 THEN find_peaks(region_intensity, top, 10, 3, top, 20)
                                 ELSE <<>>
         IN  IF peak_indices # <<>>
             THEN LET best_peak_idx ==
                          peak_indices[ArgMax(Pick(region_intensity, peak_indices))]
                  IN  Peak(region_mz[best_peak_idx],
                           region_intensity[best_peak_idx], TRUE)
             ELSE Peak(region_mz[1], region_intensity[1], FALSE)

find_true_peak_maximum(mz, inten, target, tol) ==
    LET idx == WindowIndices(mz, target, tol) IN
    IF idx = <<>> THEN None
    ELSE LET region_mz        == Pick(mz, idx)
             region_intensity == Pick(inten, idx)
             top              == SeqMax(region_intensity)
             peak_indices     == IF Len(region_intensity) > 3
                                 THEN find_peaks(region_intensity, top, 10, 3, top, 20)
                                 ELSE <<>>
         IN  IF peak_indices # <<>>
             THEN LET best_peak_idx ==
                          peak_indices[ArgMax(Pick(region_intensity, peak_indices))]
                  IN  Peak(region_mz[best_peak_idx],
                           region_intensity[best_peak_idx], TRUE)
             ELSE LET max_idx == ArgMax(region_intensity)
                  IN  Peak(region_mz[max_idx], region_intensity[max_idx], FALSE)

(***************************************************************************)
(* Compound configurations, as _load_all_references builds them            *)
(***************************************************************************)
\* DETECTION_CONFIG; m/z in units of 0.005 Da
MZ_TOLERANCE == 60
MIN_INTENSITY_THRESHOLD == 1000
MIN_ISOTOPE_MATCHES == 1
MZ_TOLERANCE_VALIDATION == 3

S_TOP      == <<"T", "O", "P">>
S_TOPO     == <<"T", "O", "P", "O">>
S_TOPSe    == <<"T", "O", "P", "S", "e">>
S_Oleic    == <<"O", "l", "e", "i", "c">>
F_C24H52P   == <<"C", "2", "4", "H", "5", "2", "P">>
F_C24H52OP  == <<"C", "2", "4", "H", "5", "2", "O", "P">>
F_C24H52PSe == <<"C", "2", "4", "H", "5", "2", "P", "S", "e">>
F_C18H35O2  == <<"C", "1", "8", "H", "3", "5", "O", "2">>

CompoundConfig(formula, compound_name, exact_mass) ==
    [formula                 |-> formula,
     compound_name           |-> compound_name,
     target_mz               |-> exact_mass,
     mz_tolerance            |-> MZ_TOLERANCE,
     min_intensity_threshold |-> MIN_INTENSITY_THRESHOLD,
     min_isotope_matches     |-> MIN_ISOTOPE_MATCHES,
     mz_tolerance_validation |-> MZ_TOLERANCE_VALIDATION]

\* abs(mz - target) / target * 1e6 < limit, for target > 0 (for target = 0
\* numpy yields inf or nan and the comparison is False)
PpmBelow(mz, target, limit) ==
    target > 0 /\ Abs(mz - target) * 1000000 < limit * target

\* abs(mz - target) / target * 1e6; the targets of the model divide 1e6
PpmOf(mz, target) == (Abs(mz - target) * 1000000) \div target

(***************************************************************************)
(* CompoundDetector.detect_compound_in_spectrum                            *)
(***************************************************************************)
Raise(what) == [type |-> "raise", error |-> what]
IsRaise(x) == x.type = "raise"

\* mutant: the floor of the configuration for every compound
DetectMinIntensity_Default(config) == config.min_intensity_threshold

\* mutant: the floor is doubled once a sweep has returned
DetectMinIntensity_Adaptive(config) ==
    (IF returned = None THEN 1 ELSE 2) *
        (IF Contains(S_TOP, config.compound_name) THEN 2000
         ELSE config.min_intensity_threshold)

\* lines 267-281: the floor follows the compound name
DetectMinIntensity(config) ==
    IF Contains(S_TOPSe, config.compound_name) THEN 2000
    ELSE IF Contains(S_TOP, config.compound_name)
            /\ ~Contains(S_TOPSe, config.compound_name) THEN 2000
    ELSE IF Contains(S_Oleic, config.compound_name) THEN 1000
    ELSE config.min_intensity_threshold

Detection(mz, intensity, region_peaks, target) ==
    [type         |-> "detection",
     mz           |-> mz,
     intensity    |-> intensity,
     mz_error_ppm |-> PpmOf(mz, target),
     region_peaks |-> region_peaks,
     target_mz    |-> target]

detect_compound_in_spectrum(mz, inten, config) ==
    IF ~IsNum(config.target_mz) THEN Raise("TypeError")   \* target_mz - mz_tolerance
    ELSE
    LET target        == config.target_mz.v
        min_intensity == DetectMinIntensity(config)
        idx           == WindowIndices(mz, target, config.mz_tolerance)
    IN
    IF idx = <<>> THEN None
    ELSE LET region_mz        == Pick(mz, idx)
             region_intensity == Pick(inten, idx)
             max_idx          == ArgMax(region_intensity)
         IN
         IF region_intensity[max_idx] < min_intensity THEN None
         ELSE LET peak_indices == IF Len(region_intensity) > 3
                                  THEN find_peaks(region_intensity,
                                                  min_intensity, 1, 1, 0, 1)
                                  ELSE <<>>
                  best == IF peak_indices # <<>>
                          THEN peak_indices[ArgMax(Pick(region_intensity, peak_indices))]
                          ELSE max_idx
              IN  Detection(region_mz[best], region_intensity[best],
                            Len(region_intensity), target)

(***************************************************************************)
(* CompoundDetector.validate_against_reference                             *)
(***************************************************************************)
\* ReferenceDataManager.get_reference: reference_data.get(formula)
get_reference(store, formula) ==
    IF formula \in DOMAIN store THEN store[formula] ELSE None

\* index of the reference peak at which the loop of lines 359-379 breaks: the
\* first peak with normalized intensity >= 0.01 whose expected m/z is within
\* the validation tolerance of the detected m/z; 0 when the loop runs out
FirstPeakInTolerance(ref, main_mz, mz_shift, validation_tolerance) ==
    LET top  == SeqMax(ref.intensity)
        hits == SelectSeq([k \in DOMAIN ref.mz |-> k],
                    LAMBDA k : /\ top > 0
                               /\ 100 * ref.intensity[k] >= top
                               /\ Abs(main_mz - (ref.mz[k] + mz_shift))
                                      <= validation_tolerance)
    IN  IF hits = <<>> THEN 0 ELSE hits[1]

\* mutant: the class is read from the compound name alone
ValidateMinIntensity_NameOnly(config) ==
    IF Contains(S_TOP, config.compound_name) THEN 2000 ELSE 1000

\* lines 385-405: the threshold follows the compound name and formula
ValidateMinIntensity(config) ==
    LET is_topse == \/ Contains(S_TOPSe, config.compound_name)
                    \/ Contains(F_C24H52PSe, config.formula)
        is_top   == /\ Contains(S_TOP, config.compound_name)
                    /\ ~Contains(S_TOPSe, config.compound_name)
    IN  IF is_topse THEN 2000 ELSE IF is_top THEN 2000 ELSE 1000

\* mutant: the 300 ppm bound taken inclusive
MassAccuracyOk_Inclusive(main_mz, target) == PpmBelow(main_mz, target, 301)

\* mass_error_ppm < 300.0
MassAccuracyOk(main_mz, target) == PpmBelow(main_mz, target, 300)

\* mutant: no confidence without a main-peak match
ValidationScore_ZeroWithoutMatch(main_peak_match) == IF main_peak_match THEN 10 ELSE 0

\* line 418: 1.0 if main_peak_match else 0.5, in tenths
ValidationScore(main_peak_match) == IF main_peak_match THEN 10 ELSE 5

\* The returned pair (is_valid, validation_result); validation_score is kept
\* in tenths (10 for 1.0, 5 for 0.5).
validate_against_reference(store, det, config) ==
    LET reference == get_reference(store, config.formula) IN
    IF reference = None
    THEN [type |-> "validated", is_valid |-> FALSE, validation |-> [type |-> "empty"]]
    ELSE IF Len(reference.intensity) = 0 THEN Raise("ValueError")  \* line 338: np.max of an empty array
    ELSE IF ~IsNum(config.target_mz) THEN Raise("TypeError")      \* line 391
    ELSE
    LET main_mz             == det.mz
        main_intensity      == det.intensity
        theoretical_main_mz == reference.mz[ArgMax(reference.intensity)]
        mz_shift            == main_mz - theoretical_main_mz
        hit                 == FirstPeakInTolerance(reference, main_mz, mz_shift,
                                                    config.mz_tolerance_validation)
        main_peak_match     == /\ hit # 0
                               /\ 2 * reference.intensity[hit]
                                      >= SeqMax(reference.intensity)
        mass_accuracy_ok    == MassAccuracyOk(main_mz, config.target_mz.v)
        is_valid            == /\ main_intensity >= ValidateMinIntensity(config)
                               /\ mass_accuracy_ok
    IN  [type       |-> "validated",
         is_valid   |-> is_valid,
         validation |->
            [type                |-> "validation",
             is_valid            |-> is_valid,
             match_count         |-> IF main_peak_match THEN 1 ELSE 0,
             required_matches    |-> config.min_isotope_matches,
             validation_score    |-> ValidationScore(main_peak_match),
             main_peak_intensity |-> main_intensity,
             mass_error_ppm      |-> IF config.target_mz.v > 0
                                     THEN PpmOf(main_mz, config.target_mz.v)
                                     ELSE -1,
             mass_accuracy_ok    |-> mass_accuracy_ok,
             main_peak_match     |-> main_peak_match]]

(***************************************************************************)
(* Inputs                                                                  *)
(***************************************************************************)
\* longest spectrum drawn for a single locator call
MaxPoints == 5

\* m/z grid around the target 100000: outside the +-60 window, on its edges,
\* on and next to the 300 ppm distance (30 units), and a duplicated m/z
MzGrid == <<99939, 99940, 99971, 100000, 100000, 100030, 100060, 100061>>
IntensityLevels == {50, 999, 1000, 2000}

Spectrum(mz, inten) == [mz_array |-> mz, intensity_array |-> inten]

\* ascending m/z, parallel non-negative intensities
SpectraOfLen(n) ==
    UNION { { Spectrum(SubSeq(MzGrid, s, s + n - 1), inten) :
                  inten \in [1..n -> IntensityLevels] } :
            s \in 1..(Len(MzGrid) - n + 1) }

Spectra == UNION { SpectraOfLen(n) : n \in 0..MaxPoints }

S_Oleic_acid == <<"O", "l", "e", "i", "c", " ", "a", "c", "i", "d">>
S_Oleylamine == <<"O", "l", "e", "y", "l", "a", "m", "i", "n", "e">>
F_C18H37N    == <<"C", "1", "8", "H", "3", "7", "N">>
F_C36H66O4Pb == <<"C", "3", "6", "H", "6", "6", "O", "4", "P", "b">>

TargetMz == 100000
HeavyTargetMz == 200000

\* configurations of the compounds of the reference file; the fifth entry has
\* no _metadata, so its name is its formula (line 205)
CfgOleic   == CompoundConfig(F_C18H35O2, S_Oleic_acid, Num(TargetMz))
CfgTOP     == CompoundConfig(F_C24H52P, S_TOP, Num(TargetMz))
CfgTOPO    == CompoundConfig(F_C24H52OP, S_TOPO, Num(TargetMz))
CfgTOPSe   == CompoundConfig(F_C24H52PSe, S_TOPSe, Num(TargetMz))
CfgNoMeta  == CompoundConfig(F_C24H52PSe, F_C24H52PSe, Num(TargetMz))
CfgOther   == CompoundConfig(F_C18H37N, S_Oleylamine, Num(TargetMz))
CfgHeavy   == CompoundConfig(F_C36H66O4Pb, F_C36H66O4Pb, Num(HeavyTargetMz))
Catalog == {CfgOleic, CfgTOP, CfgTOPO, CfgTOPSe, CfgNoMeta, CfgOther, CfgHeavy}

\* reference isotope patterns, relative to the compound's exact mass
Pattern(mz, inten, name, em) ==
    [mz |-> mz, intensity |-> inten, compound_name |-> name, exact_mass |-> em]

PatternsFor(config) ==
    LET t == config.target_mz.v IN
    { Pattern(<<t, t + 200, t + 400>>, <<100, 27, 5>>, config.compound_name, config.target_mz),
      Pattern(<<t - 2, t, t + 200>>, <<30, 100, 20>>, config.compound_name, config.target_mz),
      Pattern(<<t>>, <<100>>, config.compound_name, config.target_mz) }

EmptyStore == [f \in {} |-> None]
StoreOf(config, pattern) == [f \in {config.formula} |-> pattern]

\* candidates handed to the validator: on, next to and beyond the 300 ppm
\* distance of both targets and the two intensity thresholds
CandidateOffsets == {-61, -60, -59, -31, -30, -29, 0, 29, 30, 31, 59, 60, 61}
CandidateIntensities == {999, 1000, 1999, 2000, 2500}
FtpmTolerances == {0, 60}
DetectConfigs == {CfgOther, CfgTOP}

(***************************************************************************)
(* Idle values of the state a specification does not use                   *)
(***************************************************************************)
LocIdle ==
    /\ mz_array = <<>> /\ intensity_array = <<>>
    /\ target_mz = 0 /\ tolerance = 0
    /\ compound_config = None
    /\ detection = None /\ corrected_peak = None /\ validation = None /\ earlier = None
SweepIdle ==
    /\ mzml_file = None /\ compounds_config = <<>> /\ ms1_spectra = <<>>
    /\ formula_idx = 0 /\ cursor = 0
    /\ all_detections = <<>> /\ detection_count = 0
    /\ results = EmptyStore /\ returned = None /\ examined = EmptyStore
RunIdle ==
    /\ mzml_files = <<>> /\ analysis_results = EmptyStore
    /\ phase = 0 /\ sample_idx = 0
    /\ successful_plots = <<>> /\ failed_plots = <<>> /\ plot_count = 0
    /\ top_rt_from_pbse1 = EmptyStore /\ processed = {}
    /\ results_data = <<>>
LoadIdle ==
    /\ data = None /\ load_idx = 0 /\ compound_count = 0
PlotterIdle ==
    /\ validated_results = EmptyStore /\ compound_idx = 0

(***************************************************************************)
(* SpecCalls: one call of a locator or of the validator on drawn inputs    *)
(***************************************************************************)
InitFindTruePeak ==
    /\ pc = "find_true_peak_maximum"
    /\ \E sp \in Spectra :
          /\ mz_array = sp.mz_array
          /\ intensity_array = sp.intensity_array
    /\ target_mz = TargetMz
    /\ tolerance \in FtpmTolerances
    /\ compound_config = None
    /\ reference_data = EmptyStore
    /\ detection = None /\ corrected_peak = None /\ validation = None /\ earlier = None

InitDetect ==
    /\ pc = "detect_compound_in_spectrum"
    /\ \E sp \in Spectra :
          /\ mz_array = sp.mz_array
          /\ intensity_array = sp.intensity_array
    /\ target_mz = 0 /\ tolerance = 0
    /\ compound_config \in DetectConfigs
    /\ reference_data = EmptyStore
    /\ detection = None /\ corrected_peak = None /\ validation = None /\ earlier = None

InitValidate ==
    /\ pc = "validate_against_reference"
    /\ mz_array = <<>> /\ intensity_array = <<>>
    /\ target_mz = 0 /\ tolerance = 0
    /\ compound_config \in Catalog
    /\ reference_data \in {StoreOf(compound_config, p) : p \in PatternsFor(compound_config)}
                           \cup {EmptyStore}
    /\ \E off \in CandidateOffsets, inten \in CandidateIntensities :
          detection = Detection(compound_config.target_mz.v + off, inten, 1,
                                compound_config.target_mz.v)
    /\ corrected_peak = None /\ validation = None /\ earlier = None

\* the call of the two worked scenarios, m/z in units of 0.0001 Da: arrays
\* [282.0, 283.26, 283.27, 284.0] and [50, 1000, 1200, 40], target 283.2637,
\* tolerance 0.1 or 0.005
Scenario ==
    [mz_array        |-> <<2820000, 2832600, 2832700, 2840000>>,
     intensity_array |-> <<50, 1000, 1200, 40>>,
     target_mz       |-> 2832637]
ScenarioTolerances == {1000, 50}

InitScenario ==
    /\ pc = "find_true_peak_maximum"
    /\ mz_array = Scenario.mz_array
    /\ intensity_array = Scenario.intensity_array
    /\ target_mz = Scenario.target_mz
    /\ tolerance \in ScenarioTolerances
    /\ compound_config = None
    /\ reference_data = EmptyStore
    /\ detection = None /\ corrected_peak = None /\ validation = None /\ earlier = None

InitCalls ==
    /\ (InitFindTruePeak \/ InitScenario \/ InitDetect \/ InitValidate)
    /\ SweepIdle /\ RunIdle /\ LoadIdle /\ PlotterIdle

CallFindTruePeak ==
    /\ pc = "find_true_peak_maximum"
    /\ corrected_peak' = find_true_peak_maximum(mz_array, intensity_array,
                                                target_mz, tolerance)
    /\ pc' = "returned_peak"
    /\ UNCHANGED <<mz_array, intensity_array, target_mz, tolerance, compound_config,
                   detection, validation, earlier, reference_data, sweepVars, runVars, loadVars, plotterVars>>

CallDetect ==
    /\ pc = "detect_compound_in_spectrum"
    /\ detection' = detect_compound_in_spectrum(mz_array, intensity_array,
                                                compound_config)
    /\ pc' = "returned_detection"
    /\ UNCHANGED <<mz_array, intensity_array, target_mz, tolerance, compound_config,
                   corrected_peak, validation, earlier, reference_data, sweepVars, runVars,
                   loadVars, plotterVars>>

CallValidate ==
    /\ pc = "validate_against_reference"
    /\ validation' = validate_against_reference(reference_data, detection,
                                                compound_config)
    /\ pc' = "returned_validation"
    /\ UNCHANGED <<mz_array, intensity_array, target_mz, tolerance, compound_config,
                   detection, corrected_peak, earlier, reference_data, sweepVars, runVars,
                   loadVars, plotterVars>>

NextCalls == CallFindTruePeak \/ CallDetect \/ CallValidate

SpecCalls == InitCalls /\ [][NextCalls]_vars

(***************************************************************************)
(* Properties of the locators and of the validator (SpecCalls)             *)
(***************************************************************************)
InWindow(mz, target, tol) == target - tol <= mz /\ mz <= target + tol

IsSampleOf(cand, mzs, intens) ==
    \E k \in DOMAIN mzs : mzs[k] = cand.mz /\ intens[k] = cand.intensity

\* C1: every candidate returned by find_true_peak_maximum or by
\* detect_compound_in_spectrum is one of the spectrum's own (m/z, intensity)
\* samples and its m/z lies in [t - w, t + w].
C1_WindowCorrectness ==
    /\ (pc = "returned_peak" /\ corrected_peak # None) =>
          /\ IsSampleOf(corrected_peak, mz_array, intensity_array)
          /\ InWindow(corrected_peak.mz, target_mz, tolerance)
    /\ (pc = "returned_detection" /\ detection # None) =>
          /\ IsSampleOf(detection, mz_array, intensity_array)
          /\ InWindow(detection.mz, compound_config.target_mz.v,
                      compound_config.mz_tolerance)

\* a candidate was returned although a sample outside the window is higher
C1_Witness ==
    /\ pc = "returned_detection" /\ detection # None
    /\ \E k \in DOMAIN mz_array :
          /\ ~InWindow(mz_array[k], compound_config.target_mz.v,
                       compound_config.mz_tolerance)
          /\ intensity_array[k] > detection.intensity

\* C2: find_true_peak_maximum returns a candidate whenever a sample of the
\* spectrum has its m/z inside [target - tolerance, target + tolerance], and
\* None only when that window is empty.
C2_FallbackTotality ==
    pc = "returned_peak" =>
        ((corrected_peak = None) <=>
            ~\E k \in DOMAIN mz_array : InWindow(mz_array[k], target_mz, tolerance))

\* the window holds more than three samples, the peak search accepts none of
\* them, and the simple maximum is returned
C2_Witness ==
    /\ pc = "returned_peak" /\ corrected_peak # None
    /\ ~corrected_peak.corrected
    /\ Len(mz_array) = MaxPoints
    /\ Cardinality({k \in DOMAIN mz_array :
                       InWindow(mz_array[k], target_mz, tolerance)}) > 3

\* the intensity threshold of each compound class of the catalogue
ClassThreshold(config) ==
    IF config \in {CfgTOP, CfgTOPO, CfgTOPSe, CfgNoMeta} THEN 2000 ELSE 1000

\* C3: with a stored reference pattern, is_valid holds exactly when the
\* candidate's intensity is >= the class threshold and its mass error is
\* strictly below 300 ppm, whether or not a main-peak match was recorded.
C3_AcceptanceRule ==
    (pc = "returned_validation" /\ compound_config.formula \in DOMAIN reference_data) =>
        /\ validation.type = "validated"
        /\ validation.is_valid <=>
              /\ detection.intensity >= ClassThreshold(compound_config)
              /\ detection.mz_error_ppm < 300

\* accepted with the intensity exactly on the threshold, one unit inside the
\* 300 ppm distance, and no main-peak match
C3_Witness ==
    /\ pc = "returned_validation"
    /\ compound_config = CfgTOP
    /\ validation.type = "validated" /\ validation.is_valid
    /\ detection.intensity = 2000
    /\ detection.mz_error_ppm = 290
    /\ ~validation.validation.main_peak_match

(***************************************************************************)
(* SpectrumAnalyzer.analyze_sample_for_compounds                           *)
(***************************************************************************)
\* a spectrum as the reader yields it; scan is extract_scan_number(ID), which
\* is 0 for an ID it cannot read; rt is extract_rt_from_scan
FileSpectrum(ms_level, scan, rt, sp) ==
    [ms_level |-> ms_level, scan |-> scan, rt |-> rt,
     mz_array |-> sp.mz_array, intensity_array |-> sp.intensity_array]

\* lines 443-454: the MS1 spectra with a valid scan number, in file order
CollectMs1(spectra) ==
    LET kept == SelectSeq(spectra, LAMBDA sp : sp.ms_level = 1 /\ sp.scan > 0)
    IN  [k \in DOMAIN kept |->
            [scan |-> kept[k].scan, rt |-> kept[k].rt,
             mz_array |-> kept[k].mz_array,
             intensity_array |-> kept[k].intensity_array]]

\* state of the loop over the spectra for one compound (lines 464-465)
NewAccumulator == [all_detections |-> <<>>, detection_count |-> 0, raised |-> FALSE]

\* mutant: the candidate is appended without looking at is_valid
AppendIfValid_Unchecked(acc, det, is_valid, validation_result, spectrum) ==
    [acc EXCEPT !.all_detections =
        Append(@, [type         |-> "detection",
                   mz           |-> det.mz,
                   intensity    |-> det.intensity,
                   mz_error_ppm |-> det.mz_error_ppm,
                   region_peaks |-> det.region_peaks,
                   target_mz    |-> det.target_mz,
                   scan         |-> spectrum.scan,
                   rt           |-> spectrum.rt,
                   validation   |-> validation_result])]

\* lines 480-486: an accepted candidate is extended and appended
AppendIfValid(acc, det, is_valid, validation_result, spectrum) ==
    IF is_valid
    THEN [acc EXCEPT !.all_detections =
             Append(@, [type         |-> "detection",
                        mz           |-> det.mz,
                        intensity    |-> det.intensity,
                        mz_error_ppm |-> det.mz_error_ppm,
                        region_peaks |-> det.region_peaks,
                        target_mz    |-> det.target_mz,
                        scan         |-> spectrum.scan,
                        rt           |-> spectrum.rt,
                        validation   |-> validation_result])]
    ELSE acc

\* the value of F for v, with v computed once
Bind(v, F(_)) == CHOOSE y \in {F(x) : x \in {v}} : TRUE

\* lines 475-486: a candidate is counted, validated and appended if valid
SweepCandidate(store, config, spectrum, acc, det) ==
    LET counted == [acc EXCEPT !.detection_count = @ + 1] IN
    Bind(validate_against_reference(store, det, config),
         LAMBDA v :
             IF IsRaise(v) THEN [counted EXCEPT !.raised = TRUE]
             ELSE AppendIfValid(counted, det, v.is_valid, v.validation, spectrum))

\* lines 466-486: the body of the loop for one spectrum
SweepSpectrum(store, config, spectrum, acc) ==
    Bind(detect_compound_in_spectrum(spectrum.mz_array,
                                     spectrum.intensity_array, config),
         LAMBDA det :
             IF IsRaise(det) THEN [acc EXCEPT !.raised = TRUE]
             ELSE IF det = None THEN acc
             ELSE SweepCandidate(store, config, spectrum, acc, det))

\* mutant: the last detection is taken for the optimal one
OptimalDetection_Latest(dets) == dets[Len(dets)]

\* mutant: among equal maxima the last one wins
OptimalDetection_LastOfMaxima(dets) ==
    dets[CHOOSE i \in DOMAIN dets :
            /\ \A j \in DOMAIN dets : dets[j].intensity <= dets[i].intensity
            /\ \A j \in (i + 1)..Len(dets) : dets[j].intensity < dets[i].intensity]

\* max(all_detections, key=lambda x: x['intensity']): the first of the maxima
OptimalDetection(dets) ==
    dets[ArgMax([k \in DOMAIN dets |-> dets[k].intensity])]

\* mutant: the raw detections are recorded as the detection count
CompoundResult_RawCount(acc) ==
    IF acc.all_detections # <<>>
    THEN [type              |-> "result",
          optimal_detection |-> OptimalDetection(acc.all_detections),
          all_detections    |-> acc.all_detections,
          detection_count   |-> acc.detection_count]
    ELSE None

\* lines 488-505: the entry of the results dict for the compound
CompoundResult(acc) ==
    IF acc.all_detections # <<>>
    THEN [type              |-> "result",
          optimal_detection |-> OptimalDetection(acc.all_detections),
          all_detections    |-> acc.all_detections,
          detection_count   |-> Len(acc.all_detections)]
    ELSE None

\* lines 506-510: the report of a compound without valid detection formats
\* target_mz with :.6f, which raises for a value that is no number
NotDetectedReportRaises(config) == ~IsNum(config.target_mz)

\* lines 513-524: the spectra the debugging output examines again
DebugSpectra(acc, spectra) ==
    IF acc.all_detections = <<>> /\ acc.detection_count > 0
    THEN 1..(IF Len(spectra) < 5 THEN Len(spectra) ELSE 5)
    ELSE {}

Put(dict, key, value) == [k \in DOMAIN dict \cup {key} |-> IF k = key THEN value ELSE dict[k]]

Returned(value, error) == [type |-> "returned", value |-> value, error |-> error]

(***************************************************************************)
(* The whole function, for the callers of analyze_sample_for_compounds     *)
(***************************************************************************)
RECURSIVE SweepFrom(_, _, _, _, _)
SweepFrom(store, config, spectra, k, acc) ==
    IF k > Len(spectra) \/ acc.raised THEN acc
    ELSE Bind(SweepSpectrum(store, config, spectra[k], acc),
              LAMBDA next : SweepFrom(store, config, spectra, k + 1, next))

\* lines 488-526 for the swept compound, then the compounds after it
RECURSIVE AnalyzeFrom(_, _, _, _, _)
AfterSweep(store, configs, spectra, i, res, acc) ==
    Bind(CompoundResult(acc),
         LAMBDA r :
             IF acc.raised \/ (r = None /\ NotDetectedReportRaises(configs[i]))
             THEN Returned(EmptyStore, TRUE)           \* lines 528-530
             ELSE Bind(Put(res, configs[i].formula, r),
                       LAMBDA stored :
                           AnalyzeFrom(store, configs, spectra, i + 1, stored)))

AnalyzeFrom(store, configs, spectra, i, res) ==
    IF i > Len(configs) THEN Returned(res, FALSE)
    ELSE Bind(SweepFrom(store, configs[i], spectra, 1, NewAccumulator),
              LAMBDA acc : AfterSweep(store, configs, spectra, i, res, acc))

analyze_sample_for_compounds(store, file, configs) ==
    IF file.type = "corrupt" THEN Returned(EmptyStore, TRUE)
    ELSE AnalyzeFrom(store, configs, CollectMs1(file.spectra), 1, EmptyStore)

(***************************************************************************)
(* SpecSweep: analyze_sample_for_compounds on one file, loop by loop       *)
(***************************************************************************)
\* most spectra in a file
MaxScans == 3

JNull == [type |-> "null"]
\* an entry the loader stored although its 'em' is no number (lines 204-226);
\* its name holds no priority word, so it is swept in phase 2
CfgBadEm == CompoundConfig(F_C36H66O4Pb, F_C36H66O4Pb, JNull)

SweepKinds ==
    { [ms_level |-> 1, id_ok |-> TRUE,  sp |-> Spectrum(<<>>, <<>>)],
      [ms_level |-> 1, id_ok |-> TRUE,  sp |-> Spectrum(<<100000>>, <<2000>>)],
      [ms_level |-> 1, id_ok |-> TRUE,  sp |-> Spectrum(<<99971>>, <<2000>>)],
      [ms_level |-> 1, id_ok |-> TRUE,  sp |-> Spectrum(<<100030>>, <<2500>>)],
      [ms_level |-> 1, id_ok |-> TRUE,  sp |-> Spectrum(<<100000>>, <<1000>>)],
      [ms_level |-> 1, id_ok |-> TRUE,
       sp |-> Spectrum(<<99940, 99971, 100000, 100029>>, <<2500, 50, 2000, 50>>)],
      [ms_level |-> 2, id_ok |-> TRUE,  sp |-> Spectrum(<<100000>>, <<2500>>)],
      [ms_level |-> 1, id_ok |-> FALSE, sp |-> Spectrum(<<100000>>, <<2500>>)] }

\* scan numbers ascend with the position in the file; rt follows the scan
FileOf(kinds) ==
    [type    |-> "mzml",
     spectra |-> [k \in DOMAIN kinds |->
                     FileSpectrum(kinds[k].ms_level,
                                  IF kinds[k].id_ok THEN k ELSE 0,
                                  10 * k, kinds[k].sp)]]
CorruptFile == [type |-> "corrupt"]

SweepFiles ==
    {CorruptFile} \cup
    UNION { {FileOf(kinds) : kinds \in [1..n -> SweepKinds]} : n \in 0..MaxScans }

\* the loader stops at an entry whose 'em' is no number (line 226), so such a
\* configuration is the last one of its dict
SweepConfigs ==
    { <<c>> : c \in Catalog \cup {CfgBadEm} } \cup
    { <<CfgTOP, CfgOleic>>, <<CfgOther, CfgBadEm>> }

\* the store the loader leaves for the configurations: one pattern a formula
DefaultPattern(config) ==
    LET t == IF IsNum(config.target_mz) THEN config.target_mz.v ELSE TargetMz
    IN  Pattern(<<t, t + 200, t + 400>>, <<100, 27, 5>>,
                config.compound_name, config.target_mz)

StoreFor(configs) ==
    [f \in {configs[i].formula : i \in DOMAIN configs} |->
        DefaultPattern(configs[CHOOSE i \in DOMAIN configs : configs[i].formula = f])]

InitSweep ==
    /\ pc = "analyze_sample"
    /\ mzml_file \in SweepFiles
    /\ compounds_config \in SweepConfigs
    /\ reference_data = StoreFor(compounds_config)
    /\ ms1_spectra = <<>> /\ formula_idx = 0 /\ cursor = 0
    /\ all_detections = <<>> /\ detection_count = 0
    /\ results = EmptyStore /\ returned = None /\ examined = EmptyStore
    /\ LocIdle /\ RunIdle /\ LoadIdle /\ PlotterIdle

\* lines 438-456: open the file and collect the MS1 spectra
CollectSpectra ==
    /\ pc = "analyze_sample"
    /\ IF mzml_file.type = "corrupt"
       THEN /\ pc' = "returned"
            /\ returned' = Returned(EmptyStore, TRUE)
            /\ UNCHANGED <<ms1_spectra, formula_idx, cursor, examined>>
       ELSE /\ ms1_spectra' = CollectMs1(mzml_file.spectra)
            /\ examined' = [p \in (DOMAIN compounds_config) \X (DOMAIN ms1_spectra') |-> 0]
            /\ formula_idx' = 1 /\ cursor' = 1
            /\ pc' = "sweep"
            /\ UNCHANGED returned
    /\ UNCHANGED <<mzml_file, compounds_config, all_detections, detection_count,
                   results, reference_data, locVars, runVars, loadVars, plotterVars>>

\* lines 466-486: one spectrum of the loop of the current compound
ExamineSpectrum ==
    /\ pc = "sweep" /\ cursor <= Len(ms1_spectra)
    /\ LET acc == SweepSpectrum(reference_data, compounds_config[formula_idx],
                                ms1_spectra[cursor],
                                [all_detections  |-> all_detections,
                                 detection_count |-> detection_count,
                                 raised          |-> FALSE])
       IN  /\ examined' = [examined EXCEPT ![<<formula_idx, cursor>>] = @ + 1]
           /\ all_detections' = acc.all_detections
           /\ detection_count' = acc.detection_count
           /\ IF acc.raised
              THEN /\ pc' = "returned"
                   /\ returned' = Returned(EmptyStore, TRUE)
                   /\ UNCHANGED cursor
              ELSE /\ cursor' = cursor + 1
                   /\ UNCHANGED <<pc, returned>>
    /\ UNCHANGED <<mzml_file, compounds_config, ms1_spectra, formula_idx, results,
                   reference_data, locVars, runVars, loadVars, plotterVars>>

\* lines 488-526: select the optimal detection, report, go to the next
\* compound or return the results
FinishCompound ==
    /\ pc = "sweep" /\ cursor > Len(ms1_spectra)
    /\ LET config == compounds_config[formula_idx]
           acc    == [all_detections  |-> all_detections,
                      detection_count |-> detection_count,
                      raised          |-> FALSE]
           r      == CompoundResult(acc)
       IN  IF r = None /\ NotDetectedReportRaises(config)
           THEN /\ pc' = "returned"
                /\ returned' = Returned(EmptyStore, TRUE)
                /\ UNCHANGED <<results, formula_idx, cursor, all_detections,
                               detection_count, examined>>
           ELSE /\ results' = Put(results, config.formula, r)
                /\ examined' = [p \in DOMAIN examined |->
                                   IF p[1] = formula_idx /\ p[2] \in DebugSpectra(acc, ms1_spectra)
                                   THEN examined[p] + 1 ELSE examined[p]]
                /\ all_detections' = <<>> /\ detection_count' = 0
                /\ cursor' = 1
                /\ formula_idx' = formula_idx + 1
                /\ IF formula_idx = Len(compounds_config)
                   THEN pc' = "returned" /\ returned' = Returned(results', FALSE)
                   ELSE UNCHANGED <<pc, returned>>
    /\ UNCHANGED <<mzml_file, compounds_config, ms1_spectra, reference_data,
                   locVars, runVars, loadVars, plotterVars>>

NextSweep == CollectSpectra \/ ExamineSpectrum \/ FinishCompound

SpecSweep == InitSweep /\ [][NextSweep]_vars

(***************************************************************************)
(* Properties of the sweep (SpecSweep)                                     *)
(***************************************************************************)
\* the spectrum yields a candidate and the validator accepts it
Accepted(store, config, spectrum) ==
    LET det == detect_compound_in_spectrum(spectrum.mz_array,
                                           spectrum.intensity_array, config)
    IN  /\ det.type = "detection"
        /\ LET v == validate_against_reference(store, det, config)
           IN  v.type = "validated" /\ v.is_valid

AcceptedSpectra(config) ==
    {k \in DOMAIN ms1_spectra : Accepted(reference_data, config, ms1_spectra[k])}

CandidateIntensity(config, k) ==
    detect_compound_in_spectrum(ms1_spectra[k].mz_array,
                                ms1_spectra[k].intensity_array, config).intensity

Range(seq) == {seq[k] : k \in DOMAIN seq}

\* the sweep has returned its results without an error
SweepCompleted == pc = "returned" /\ ~returned.error

\* C4: after the sweep the recorded optimal_detection is a member of
\* all_detections and its intensity is >= that of every accepted candidate of
\* the sweep.
C4_OptimalIsMaximum ==
    SweepCompleted =>
        \A i \in DOMAIN compounds_config :
            LET r == returned.value[compounds_config[i].formula] IN
            r # None =>
                /\ r.optimal_detection \in Range(r.all_detections)
                /\ \A d \in Range(r.all_detections) :
                       d.intensity <= r.optimal_detection.intensity
                /\ \A k \in AcceptedSpectra(compounds_config[i]) :
                       CandidateIntensity(compounds_config[i], k)
                           <= r.optimal_detection.intensity

\* the optimal detection is neither the first nor the last accepted one
C4_Witness ==
    /\ SweepCompleted
    /\ \E i \in DOMAIN compounds_config :
          LET r == returned.value[compounds_config[i].formula] IN
          /\ r # None
          /\ Len(r.all_detections) = 3
          /\ r.optimal_detection = r.all_detections[2]
          /\ r.all_detections[1].intensity < r.optimal_detection.intensity
          /\ r.all_detections[3].intensity < r.optimal_detection.intensity

PassedValidation(d, config) ==
    /\ d.intensity >= ClassThreshold(config)
    /\ d.mz_error_ppm < 300
    /\ d.validation.is_valid

\* C5: every detection in the accumulator and in the sample's result passed
\* validation (intensity >= the class threshold, mass error < 300 ppm); a
\* candidate the validator rejected is never added.
C5_OnlyValidated ==
    /\ pc = "sweep" =>
          \A d \in Range(all_detections) :
              PassedValidation(d, compounds_config[formula_idx])
    /\ pc = "sweep" =>
          Len(all_detections) =
              Cardinality({k \in AcceptedSpectra(compounds_config[formula_idx]) :
                              k < cursor})
    /\ pc = "returned" =>
          \A i \in DOMAIN compounds_config :
              LET f == compounds_config[i].formula IN
              (f \in DOMAIN returned.value /\ returned.value[f] # None) =>
                  \A d \in Range(returned.value[f].all_detections)
                              \cup {returned.value[f].optimal_detection} :
                      PassedValidation(d, compounds_config[i])

\* a result holds detections although a candidate of the sweep was rejected
C5_Witness ==
    /\ SweepCompleted
    /\ \E i \in DOMAIN compounds_config :
          /\ returned.value[compounds_config[i].formula] # None
          /\ \E k \in DOMAIN ms1_spectra :
                /\ detect_compound_in_spectrum(ms1_spectra[k].mz_array,
                       ms1_spectra[k].intensity_array, compounds_config[i]) # None
                /\ k \notin AcceptedSpectra(compounds_config[i])

\* C6: when several accepted candidates share the maximum intensity, the
\* optimal detection is the one of the earliest spectrum.
C6_FirstEncounteredWins ==
    SweepCompleted =>
        \A i \in DOMAIN compounds_config :
            LET r == returned.value[compounds_config[i].formula] IN
            r # None =>
                \A d \in Range(r.all_detections) :
                    d.intensity = r.optimal_detection.intensity =>
                        r.optimal_detection.scan <= d.scan

\* two accepted candidates of different spectra share the maximum
C6_Witness ==
    /\ SweepCompleted
    /\ \E i \in DOMAIN compounds_config :
          LET r == returned.value[compounds_config[i].formula] IN
          /\ r # None
          /\ \E d \in Range(r.all_detections) :
                /\ d.intensity = r.optimal_detection.intensity
                /\ d.scan > r.optimal_detection.scan
                /\ d.mz # r.optimal_detection.mz

WellFormedInput ==
    /\ mzml_file.type = "mzml"
    /\ \A i \in DOMAIN compounds_config : IsNum(compounds_config[i].target_mz)

C8_ErrorScopedToPair ==
    (pc = "returned" /\ returned.error /\ formula_idx >= 1) =>
        /\ \A f \in DOMAIN results :
               f \in DOMAIN returned.value /\ returned.value[f] = results[f]
        /\ compounds_config[formula_idx].formula \in DOMAIN returned.value
        /\ returned.value[compounds_config[formula_idx].formula] = None

(***************************************************************************)
(* ComprehensiveCompoundAnalyzer.analyze_all_samples                       *)
(***************************************************************************)
S_PbSe1  == <<"P", "b", "S", "e", "1">>
S_PbSe7  == <<"P", "b", "S", "e", "7">>
S_PbSe10 == <<"P", "b", "S", "e", "1", "0">>
S_Pos_1  == <<"_", "P", "o", "s", "_", "1">>

\* one sample of each type, in the order of SAMPLE_MAPPING
SAMPLE_MAPPING == <<S_PbSe1 \o S_Pos_1, S_PbSe7 \o S_Pos_1, S_PbSe10 \o S_Pos_1>>

\* os.path.exists(file_path) is False
MissingFile == [type |-> "missing"]

\* lines 921-926: any(priority in compound_name for priority in [...])
IsPriority(config) ==
    \E priority \in {S_TOP, S_TOPO, S_TOPSe, S_Oleic} :
        Contains(priority, config.compound_name)
priority_compounds(configs) == SelectSeq(configs, IsPriority)
other_compounds(configs) == SelectSeq(configs, LAMBDA c : ~IsPriority(c))

\* line 931 formats target_mz of every priority compound with :.4f
PriorityReportRaises(configs) ==
    \E i \in DOMAIN priority_compounds(configs) :
        ~IsNum(priority_compounds(configs)[i].target_mz)

\* dict.get(key) and dict.get(key, default)
DictGet(dict, key, default) == IF key \in DOMAIN dict THEN dict[key] ELSE default

\* mutant: the results of phase 2 take the place of those of phase 1
DictUpdate_Replace(dict, other) == other

\* dict.update(other)
DictUpdate(dict, other) ==
    [k \in DOMAIN dict \cup DOMAIN other |->
        IF k \in DOMAIN other THEN other[k] ELSE dict[k]]

ConfigOf(configs, formula) ==
    configs[CHOOSE i \in DOMAIN configs : configs[i].formula = formula]

IsTopName(compound_name) ==
    Contains(S_TOP, compound_name) /\ ~Contains(S_TOPSe, compound_name)

\* line 963: result.get('retention_time', result.get('scan_time', 0))
ResultRt(result) ==
    DictGet(result, "retention_time", DictGet(result, "scan_time", 0))

\* lines 958-966: TOP retention times collected from the PbSe1 samples
CollectTopRt(sample_name, compound_results, configs, top_rt) ==
    IF Contains(S_PbSe1, sample_name)
    THEN LET found == {f \in DOMAIN compound_results :
                          /\ IsTopName(ConfigOf(configs, f).compound_name)
                          /\ compound_results[f] # None
                          /\ ResultRt(compound_results[f]) > 0}
         IN  [f \in DOMAIN top_rt \cup found |->
                 IF f \in found THEN ResultRt(compound_results[f]) ELSE top_rt[f]]
    ELSE top_rt

\* f"{sample_name}_{formula}"
PlotKey(sample_name, formula) == sample_name \o <<"_">> \o formula

\* lines 972-987: TOP is plotted in a PbSe7/PbSe10 sample at the retention
\* time collected from PbSe1 although it was not detected
ForcePlot(config, sample_name, detection_result, top_rt) ==
    /\ detection_result = None
    /\ IsTopName(config.compound_name)
    /\ (Contains(S_PbSe7, sample_name) \/ Contains(S_PbSe10, sample_name))
    /\ config.formula \in DOMAIN top_rt

SyntheticDetection(config, avg_rt) ==
    [type           |-> "forced",
     scan           |-> 2 * avg_rt,
     retention_time |-> avg_rt,
     mz             |-> config.target_mz,
     intensity      |-> 1000]

\* _plot_single_compound: generate_plot reads detection_result
\* ['optimal_detection'] (line 565), which the synthetic result does not hold;
\* otherwise drawing and saving succeed or raise as the environment decides
PlotRaises(detection_result, attempt) ==
    \/ "optimal_detection" \notin DOMAIN detection_result
    \/ attempt = "raised"

\* lines 990-1010 (1040-1059): the plot of one compound of one sample.
\* guarded: the try statement of line 992 (1042) is in place
PlotCompound(config, sample_name, detection_result, attempt, guarded, ps) ==
    IF detection_result = None THEN ps
    ELSE IF PlotRaises(detection_result, attempt)
         THEN IF guarded
              THEN [ps EXCEPT !.failed_plots =
                                  Append(@, PlotKey(sample_name, config.formula))]
              ELSE [ps EXCEPT !.escaped = TRUE]
         ELSE [ps EXCEPT !.successful_plots =
                             Append(@, PlotKey(sample_name, config.formula)),
                         !.plot_count = @ + 1]

\* the loop of lines 969-1010 (1040-1059) from the i-th compound on
RECURSIVE PlotCompounds(_, _, _, _, _, _, _, _, _)
PlotCompounds(phase_no, configs, i, sample_name, compound_results, top_rt, attempts, guarded, ps) ==
    IF i > Len(configs) \/ ps.escaped THEN ps
    ELSE LET config   == configs[i]
             found    == DictGet(compound_results, config.formula, None)
             detection_result ==
                 IF phase_no = 1 /\ ForcePlot(config, sample_name, found, top_rt)
                 THEN SyntheticDetection(config, top_rt[config.formula])
                 ELSE found
         IN  PlotCompounds(phase_no, configs, i + 1, sample_name, compound_results,
                           top_rt, attempts, guarded,
                           PlotCompound(config, sample_name, detection_result,
                                        attempts[i], guarded, ps))

\* mutant: the plots of a sample without the exception handlers around them
PlotSample_Unguarded(phase_no, configs, sample_name, compound_results, top_rt, attempts, ps) ==
    PlotCompounds(phase_no, configs, 1, sample_name, compound_results, top_rt,
                  attempts, FALSE, ps)

\* lines 968-1013 (1040-1062): the plots of one sample as the code has them
PlotSample(phase_no, configs, sample_name, compound_results, top_rt, attempts, ps) ==
    PlotCompounds(phase_no, configs, 1, sample_name, compound_results, top_rt,
                  attempts, TRUE, ps)

\* lines 1141-1143: the type of a sample, read from its name
SampleType(sample_name) ==
    IF Contains(S_PbSe1, sample_name) THEN S_PbSe1
    ELSE IF Contains(S_PbSe7, sample_name) THEN S_PbSe7 ELSE S_PbSe10

\* lines 1145-1173: the nine columns of one compound in the row of a sample
SavedFields(result) ==
    IF result # None
    THEN [detected           |-> TRUE,
          optimal_scan       |-> result.optimal_detection.scan,
          optimal_rt         |-> result.optimal_detection.rt,
          optimal_mz         |-> result.optimal_detection.mz,
          optimal_intensity  |-> result.optimal_detection.intensity,
          mass_error_ppm     |-> result.optimal_detection.mz_error_ppm,
          validation_matches |-> result.optimal_detection.validation.match_count,
          validation_score   |-> result.optimal_detection.validation.validation_score,
          total_detections   |-> result.detection_count]
    ELSE [detected           |-> FALSE,
          optimal_scan       |-> None,
          optimal_rt         |-> None,
          optimal_mz         |-> None,
          optimal_intensity  |-> None,
          mass_error_ppm     |-> None,
          validation_matches |-> None,
          validation_score   |-> None,
          total_detections   |-> 0]

\* mutant: the row has columns only for the compounds stored for the sample
SampleRow_OnlyStored(sample_name, sample_results, configs) ==
    [Sample      |-> sample_name,
     Sample_Type |-> SampleType(sample_name),
     columns     |-> [f \in DOMAIN sample_results |-> SavedFields(sample_results[f])]]

\* lines 1139-1175: the row of one sample; the columns of a compound are
\* kept under its formula
SampleRow(sample_name, sample_results, configs) ==
    [Sample      |-> sample_name,
     Sample_Type |-> SampleType(sample_name),
     columns     |-> [f \in {configs[j].formula : j \in DOMAIN configs} |->
                         SavedFields(DictGet(sample_results, f, None))]]

\* lines 1134-1180: one row for each sample of analysis_results, in the order
\* the samples were stored, which is their order in SAMPLE_MAPPING
save_analysis_results(stored, configs) ==
    LET names == SelectSeq(SAMPLE_MAPPING, LAMBDA n : n \in DOMAIN stored)
    IN  [k \in DOMAIN names |-> SampleRow(names[k], stored[names[k]], configs)]

(***************************************************************************)
(* SpecRun: analyze_all_samples; a step analyses or plots one sample       *)
(***************************************************************************)
\* a priority entry the loader stored although its 'em' is no number
CfgBadTop == CompoundConfig(F_C24H52P, S_TOP, JNull)

\* a file in which every compound of the catalogue is detected, and one in
\* which none is
HitFile  == FileOf(<<[ms_level |-> 1, id_ok |-> TRUE,
                      sp |-> Spectrum(<<100000>>, <<2000>>)]>>)
MissFile == FileOf(<<[ms_level |-> 1, id_ok |-> TRUE,
                      sp |-> Spectrum(<<99939>>, <<2000>>)]>>)
\* a file whose peak reaches the threshold of the default class only
LowFile  == FileOf(<<[ms_level |-> 1, id_ok |-> TRUE,
                      sp |-> Spectrum(<<100000>>, <<1000>>)]>>)
RunFiles == {MissingFile, CorruptFile, HitFile, MissFile, LowFile}

\* get_all_compound_configs() after loading, in the order of the file
RunConfigs ==
    { <<CfgTOP, CfgOleic>>, <<CfgTOP, CfgOther>>, <<CfgOleic, CfgTOP, CfgOther>>,
      <<CfgOther, CfgBadEm>>, <<CfgTOP, CfgOther, CfgBadEm>>, <<CfgOther, CfgBadTop>> }

\* matplotlib and the file system decide whether a plot is saved
PlotOutcomes == {"saved", "raised"}

\* a store whose patterns have a minor peak 0.01 Da below the main peak
ShoulderPattern(config) ==
    LET t == IF IsNum(config.target_mz) THEN config.target_mz.v ELSE TargetMz
    IN  Pattern(<<t - 2, t, t + 200>>, <<30, 100, 20>>,
                config.compound_name, config.target_mz)

ShoulderStoreFor(configs) ==
    [f \in {configs[i].formula : i \in DOMAIN configs} |->
        ShoulderPattern(configs[CHOOSE i \in DOMAIN configs : configs[i].formula = f])]

InitRun ==
    /\ pc = "analyze_all_samples"
    /\ compounds_config \in RunConfigs
    /\ reference_data \in {StoreFor(compounds_config), ShoulderStoreFor(compounds_config)}
    /\ mzml_files \in [DOMAIN SAMPLE_MAPPING -> RunFiles]
    /\ analysis_results = EmptyStore
    /\ phase = 0 /\ sample_idx = 0
    /\ successful_plots = <<>> /\ failed_plots = <<>> /\ plot_count = 0
    /\ top_rt_from_pbse1 = EmptyStore /\ processed = {}
    /\ results_data = <<>>
    /\ mzml_file = None /\ ms1_spectra = <<>> /\ formula_idx = 0 /\ cursor = 0
    /\ all_detections = <<>> /\ detection_count = 0
    /\ results = EmptyStore /\ returned = None /\ examined = EmptyStore
    /\ LocIdle /\ LoadIdle /\ PlotterIdle

\* lines 902-943: split the compounds and report the priority ones
StartRun ==
    /\ pc = "analyze_all_samples"
    /\ IF PriorityReportRaises(compounds_config)
       THEN pc' = "raised" /\ UNCHANGED <<phase, sample_idx>>
       ELSE pc' = "phase1" /\ phase' = 1 /\ sample_idx' = 1
    /\ UNCHANGED <<results_data, mzml_files, analysis_results, successful_plots, failed_plots,
                   plot_count, top_rt_from_pbse1, processed, reference_data,
                   locVars, sweepVars, loadVars, plotterVars>>

\* the loop over SAMPLE_MAPPING goes to its next sample or ends
NextSample(phase_no, after_pc, after_phase) ==
    /\ processed' = processed \cup {<<phase_no, sample_idx>>}
    /\ IF sample_idx < Len(SAMPLE_MAPPING)
       THEN /\ sample_idx' = sample_idx + 1
            /\ pc' = IF phase_no = 1 THEN "phase1" ELSE "phase2"
            /\ UNCHANGED phase
       ELSE pc' = after_pc /\ phase' = after_phase /\ sample_idx' = 1

\* where phase 1 goes when its loop is over (line 1017)
AfterPhase1 ==
    IF other_compounds(compounds_config) # <<>> THEN "phase2" ELSE "summary"

\* lines 945-966: look for the file, analyse it for the priority compounds,
\* store the results and collect the TOP retention times
Phase1Analyze ==
    /\ pc = "phase1"
    /\ IF mzml_files[sample_idx] = MissingFile
       THEN /\ NextSample(1, AfterPhase1, IF AfterPhase1 = "phase2" THEN 2 ELSE 1)
            /\ UNCHANGED <<returned, analysis_results, top_rt_from_pbse1>>
       ELSE /\ \E r \in {analyze_sample_for_compounds(
                                reference_data, mzml_files[sample_idx],
                                priority_compounds(compounds_config))} :
                  /\ returned' = r
                  /\ analysis_results' =
                         Put(analysis_results, SAMPLE_MAPPING[sample_idx], r.value)
                  /\ top_rt_from_pbse1' =
                         CollectTopRt(SAMPLE_MAPPING[sample_idx], r.value,
                                      priority_compounds(compounds_config),
                                      top_rt_from_pbse1)
            /\ pc' = "phase1_plots"
            /\ UNCHANGED <<phase, sample_idx, processed>>
    /\ UNCHANGED <<results_data, mzml_files, successful_plots, failed_plots, plot_count,
                   reference_data, locVars, loadVars, plotterVars, mzml_file, compounds_config,
                   ms1_spectra, formula_idx, cursor, all_detections,
                   detection_count, results, examined>>

\* the plots of the sample of a phase, then the next sample
PlotStep(phase_no, configs, after_pc, after_phase) ==
    /\ \E attempts \in [DOMAIN configs -> PlotOutcomes] :
       \E ps \in {PlotSample(phase_no, configs, SAMPLE_MAPPING[sample_idx],
                             returned.value, top_rt_from_pbse1, attempts,
                             [successful_plots |-> successful_plots,
                              failed_plots     |-> failed_plots,
                              plot_count       |-> plot_count,
                              escaped          |-> FALSE])} :
          /\ successful_plots' = ps.successful_plots
          /\ failed_plots' = ps.failed_plots
          /\ plot_count' = ps.plot_count
          /\ IF ps.escaped
             THEN pc' = "raised" /\ UNCHANGED <<phase, sample_idx, processed>>
             ELSE NextSample(phase_no, after_pc, after_phase)
    /\ UNCHANGED <<results_data, mzml_files, analysis_results, top_rt_from_pbse1, reference_data,
                   locVars, sweepVars, loadVars, plotterVars>>

\* lines 968-1013
Phase1Plot ==
    /\ pc = "phase1_plots"
    /\ PlotStep(1, priority_compounds(compounds_config), AfterPhase1,
                IF AfterPhase1 = "phase2" THEN 2 ELSE 1)

\* lines 1024-1038: look for the file, analyse it for the other compounds and
\* merge the results into those of phase 1
Phase2Analyze ==
    /\ pc = "phase2"
    /\ IF mzml_files[sample_idx] = MissingFile
       THEN /\ NextSample(2, "summary", 2)
            /\ UNCHANGED <<returned, analysis_results>>
       ELSE /\ \E r \in {analyze_sample_for_compounds(
                                reference_data, mzml_files[sample_idx],
                                other_compounds(compounds_config))} :
                  /\ returned' = r
                  /\ analysis_results' =
                         IF SAMPLE_MAPPING[sample_idx] \in DOMAIN analysis_results
                         THEN Put(analysis_results, SAMPLE_MAPPING[sample_idx],
                                  DictUpdate(analysis_results[SAMPLE_MAPPING[sample_idx]],
                                             r.value))
                         ELSE Put(analysis_results, SAMPLE_MAPPING[sample_idx],
                                  r.value)
            /\ pc' = "phase2_plots"
            /\ UNCHANGED <<phase, sample_idx, processed>>
    /\ UNCHANGED <<results_data, mzml_files, successful_plots, failed_plots, plot_count,
                   top_rt_from_pbse1, reference_data, locVars, loadVars, plotterVars, mzml_file,
                   compounds_config, ms1_spectra, formula_idx, cursor,
                   all_detections, detection_count, results, examined>>

\* lines 1040-1062
Phase2Plot ==
    /\ pc = "phase2_plots"
    /\ PlotStep(2, other_compounds(compounds_config), "summary", 2)

\* lines 1066-1071: _generate_summary_report and _save_analysis_results
Summarize ==
    /\ pc = "summary"
    /\ results_data' = save_analysis_results(analysis_results, compounds_config)
    /\ pc' = "done"
    /\ UNCHANGED <<mzml_files, analysis_results, phase, sample_idx, successful_plots,
                   failed_plots, plot_count, top_rt_from_pbse1, processed,
                   reference_data, locVars, sweepVars, loadVars, plotterVars>>

NextRun ==
    \/ StartRun
    \/ Phase1Analyze \/ Phase1Plot
    \/ Phase2Analyze \/ Phase2Plot
    \/ Summarize

SpecRun == InitRun /\ [][NextRun]_vars

(***************************************************************************)
(* Properties of the run (SpecRun)                                         *)
(***************************************************************************)
\* the (phase, sample) pairs of a complete run
AllSamplePairs ==
    ({1} \X DOMAIN SAMPLE_MAPPING)
        \cup (IF other_compounds(compounds_config) # <<>>
              THEN {2} \X DOMAIN SAMPLE_MAPPING ELSE {})

\* how far the run has come
RunPosition ==
    CASE pc = "analyze_all_samples" -> 0
      [] pc = "phase1"              -> 100 + 2 * sample_idx
      [] pc = "phase1_plots"        -> 100 + 2 * sample_idx + 1
      [] pc = "phase2"              -> 200 + 2 * sample_idx
      [] pc = "phase2_plots"        -> 200 + 2 * sample_idx + 1
      [] pc = "summary"             -> 300
      [] pc = "done"                -> 400
      [] pc = "raised"              -> 500

\* C9: an exception raised while a sample is analysed or plotted never stops
\* analyze_all_samples: no exception leaves the function once the loop over
\* the samples has begun; until the results are saved there is a next step
\* and each step brings the run forward; every sample is processed in every
\* phase and each sample with a file has its entry in analysis_results when
\* the run arrives at the summary and the saving of the results.
C9_RunSurvivesSampleErrors ==
    /\ [](pc = "raised" => sample_idx = 0)
    /\ [](pc \notin {"done", "raised"} => ENABLED NextRun)
    /\ [][RunPosition' > RunPosition]_vars
    /\ [](pc \in {"summary", "done"} =>
            /\ processed = AllSamplePairs
            /\ \A i \in DOMAIN SAMPLE_MAPPING :
                   mzml_files[i] # MissingFile =>
                       SAMPLE_MAPPING[i] \in DOMAIN analysis_results)

\* the run is done although the analysis of the first sample raised and a plot
\* of the second sample raised; the third sample has results of both phases
C9_Witness ==
    /\ pc = "done"
    /\ mzml_files[1] = CorruptFile /\ mzml_files[3] # MissingFile
    /\ analysis_results[SAMPLE_MAPPING[1]] = EmptyStore
    /\ \E i \in DOMAIN compounds_config :
          PlotKey(SAMPLE_MAPPING[2], compounds_config[i].formula) \in Range(failed_plots)
    /\ \E i, j \in DOMAIN compounds_config :
          /\ IsPriority(compounds_config[i]) /\ ~IsPriority(compounds_config[j])
          /\ DictGet(analysis_results[SAMPLE_MAPPING[3]],
                     compounds_config[i].formula, None) # None
          /\ DictGet(analysis_results[SAMPLE_MAPPING[3]],
                     compounds_config[j].formula, None) # None
          /\ PlotKey(SAMPLE_MAPPING[3], compounds_config[j].formula)
                 \in Range(successful_plots)

(***************************************************************************)
(* parse_xy_string and ReferenceDataManager._load_all_references           *)
(***************************************************************************)
\* JSON values as json.load returns them
JStr(chars) == [type |-> "str", v |-> chars]
EmptyDict == [type |-> "dict"]

\* The 'xy' string by what strip().split('\r\n') and split(', ') make of it:
\* a sequence of lines, each a sequence of parts; a line without visible
\* text is <<>>.  A part is text float() reads or text it rejects.
Float(v) == [type |-> "float", v |-> v]
Text == [type |-> "text"]
XyString(lines) == [type |-> "xy", lines |-> lines]

EmptyArrays == [mz |-> <<>>, intensity |-> <<>>]

\* lines 103-121
parse_xy_string(xy_string) ==
    IF xy_string.type # "xy" THEN EmptyArrays     \* no .strip(): lines 119-121
    ELSE LET pairs == SelectSeq(xy_string.lines,
                                LAMBDA line : line # <<>> /\ Len(line) = 2)
         IN  IF \E k \in DOMAIN pairs :
                    pairs[k][1].type # "float" \/ pairs[k][2].type # "float"
             THEN EmptyArrays                     \* ValueError: lines 119-121
             ELSE [mz        |-> [k \in DOMAIN pairs |-> pairs[k][1].v],
                   intensity |-> [k \in DOMAIN pairs |-> pairs[k][2].v]]

\* self.compounds_config[formula] = config: a known key keeps its place
SetConfig(configs, config) ==
    IF \E i \in DOMAIN configs : configs[i].formula = config.formula
    THEN [i \in DOMAIN configs |->
             IF configs[i].formula = config.formula THEN config ELSE configs[i]]
    ELSE Append(configs, config)

\* lines 204-227 for an entry with a formula and at least one peak
StoreFormula(formula_data, formula, arrays, st) ==
    LET exact_mass == DictGet(formula_data, "em", Num(0))
        metadata   == DictGet(formula_data, "_metadata", EmptyDict)
    IN  IF metadata.type # "dict" THEN [st EXCEPT !.raised = TRUE]   \* line 205
        ELSE
        LET compound_name == DictGet(metadata, "compound_name", formula)
            stored ==
                [st EXCEPT
                    !.reference_data =
                        Put(@, formula.v,
                            Pattern(arrays.mz, arrays.intensity,
                                    compound_name.v, exact_mass)),
                    !.compounds_config =
                        SetConfig(@, CompoundConfig(formula.v, compound_name.v,
                                                    exact_mass))]
        IN  IF ~IsNum(exact_mass)
            THEN [stored EXCEPT !.raised = TRUE]                     \* line 226
            ELSE [stored EXCEPT !.compound_count = @ + 1]

\* lines 197-227: the body of the loop for one entry of data['formulas'];
\* st holds reference_data, compounds_config and compound_count, and
\* st.raised tells that an exception left the body
LoadFormula(formula_data, st) ==
    IF formula_data.type # "dict" THEN [st EXCEPT !.raised = TRUE]   \* line 197
    ELSE
    LET formula == DictGet(formula_data, "mf", None) IN
    IF ~(formula.type = "str" /\ formula.v # <<>>) THEN st           \* line 198
    ELSE
    LET arrays == parse_xy_string(DictGet(formula_data, "xy", XyString(<<>>))) IN
    IF Len(arrays.mz) = 0 THEN st                                    \* line 202
    ELSE StoreFormula(formula_data, formula, arrays, st)

(***************************************************************************)
(* SpecLoad: _load_all_references on a reference file, entry by entry      *)
(***************************************************************************)
\* most entries in data['formulas']
MaxEntries == 3

XyPattern(t) == XyString(<<<<Float(t), Float(100)>>, <<Float(t + 200), Float(27)>>>>)
MetaName(chars) == [type |-> "dict", compound_name |-> JStr(chars)]

\* entries the loader accepts
EntryOleylamine ==
    [type |-> "dict", mf |-> JStr(F_C18H37N), xy |-> XyPattern(TargetMz),
     em |-> Num(TargetMz), _metadata |-> MetaName(S_Oleylamine)]
EntryTOP ==
    [type |-> "dict", mf |-> JStr(F_C24H52P), xy |-> XyPattern(TargetMz),
     em |-> Num(TargetMz), _metadata |-> MetaName(S_TOP)]
EntryNoMetadata ==
    [type |-> "dict", mf |-> JStr(F_C24H52PSe), xy |-> XyPattern(TargetMz),
     em |-> Num(TargetMz)]
\* a line of three parts is passed over, the other line is read
EntryLongLine ==
    [type |-> "dict", mf |-> JStr(F_C18H35O2),
     xy |-> XyString(<<<<Float(TargetMz), Float(100), Float(1)>>,
                       <<>>,
                       <<Float(TargetMz + 200), Float(27)>>>>),
     em |-> Num(TargetMz), _metadata |-> MetaName(S_Oleic_acid)]
\* the lines of the peak list are not in the order of their m/z
EntryUnsorted ==
    [type |-> "dict", mf |-> JStr(F_C36H66O4Pb),
     xy |-> XyString(<<<<Float(HeavyTargetMz + 200), Float(27)>>,
                       <<Float(HeavyTargetMz), Float(100)>>>>),
     em |-> Num(HeavyTargetMz)]
\* entries without a usable peak list or formula
EntryZeroPeaks ==
    [type |-> "dict", mf |-> JStr(F_C24H52OP), xy |-> XyString(<<>>),
     em |-> Num(TargetMz), _metadata |-> MetaName(S_TOPO)]
EntryBadNumber ==
    [type |-> "dict", mf |-> JStr(F_C24H52OP),
     xy |-> XyString(<<<<Float(TargetMz), Float(100)>>, <<Float(TargetMz + 200), Text>>>>),
     em |-> Num(TargetMz), _metadata |-> MetaName(S_TOPO)]
EntryXyNull ==
    [type |-> "dict", mf |-> JStr(F_C24H52OP), xy |-> JNull,
     em |-> Num(TargetMz), _metadata |-> MetaName(S_TOPO)]
EntryNoFormula ==
    [type |-> "dict", xy |-> XyPattern(TargetMz), em |-> Num(TargetMz)]
\* entries of a wrong shape
EntryNullMetadata ==
    [type |-> "dict", mf |-> JStr(F_C24H52OP), xy |-> XyPattern(TargetMz),
     em |-> Num(TargetMz), _metadata |-> JNull]
EntryNullEm ==
    [type |-> "dict", mf |-> JStr(F_C36H66O4Pb), xy |-> XyPattern(TargetMz),
     em |-> JNull]
EntryNotDict == JStr(F_C24H52OP)

Entries ==
    { EntryOleylamine, EntryTOP, EntryNoMetadata, EntryLongLine, EntryUnsorted,
      EntryZeroPeaks, EntryBadNumber, EntryXyNull, EntryNoFormula,
      EntryNullMetadata, EntryNullEm, EntryNotDict }

\* the file cannot be opened or is no JSON
Unreadable == [type |-> "unreadable"]
JsonFile(formulas) == [type |-> "json", formulas |-> formulas]

ReferenceFiles ==
    {Unreadable} \cup
    UNION { {JsonFile(f) : f \in [1..n -> Entries]} : n \in 0..MaxEntries }

InitLoad ==
    /\ pc = "load_all_references"
    /\ data \in ReferenceFiles
    /\ load_idx = 0 /\ compound_count = 0
    /\ reference_data = EmptyStore
    /\ SweepIdle /\ LocIdle /\ RunIdle /\ PlotterIdle

\* lines 189-195: read the file
OpenReferences ==
    /\ pc = "load_all_references"
    /\ IF data.type = "unreadable"
       THEN pc' = "loaded" /\ UNCHANGED load_idx          \* lines 232-233
       ELSE pc' = "loading" /\ load_idx' = 1
    /\ UNCHANGED <<plotterVars, data, compound_count, reference_data, locVars, sweepVars, runVars>>

\* lines 196-227: one entry of data['formulas']
LoadEntry ==
    /\ pc = "loading" /\ load_idx <= Len(data.formulas)
    /\ \E st \in {LoadFormula(data.formulas[load_idx],
                              [reference_data   |-> reference_data,
                               compounds_config |-> compounds_config,
                               compound_count   |-> compound_count,
                               raised           |-> FALSE])} :
          /\ reference_data' = st.reference_data
          /\ compounds_config' = st.compounds_config
          /\ compound_count' = st.compound_count
          /\ IF st.raised
             THEN pc' = "loaded" /\ UNCHANGED load_idx    \* lines 232-233
             ELSE load_idx' = load_idx + 1 /\ UNCHANGED pc
    /\ UNCHANGED <<plotterVars, data, locVars, runVars, mzml_file, ms1_spectra, formula_idx, cursor,
                   all_detections, detection_count, results, returned, examined>>

\* lines 229-230: the loop is over
FinishLoad ==
    /\ pc = "loading" /\ load_idx > Len(data.formulas)
    /\ pc' = "loaded"
    /\ UNCHANGED <<plotterVars, data, load_idx, compound_count, reference_data, locVars, sweepVars,
                   runVars>>

NextLoad == OpenReferences \/ LoadEntry \/ FinishLoad

SpecLoad == InitLoad /\ [][NextLoad]_vars

(***************************************************************************)
(* Properties of the loader (SpecLoad)                                     *)
(***************************************************************************)
\* an entry with a formula, a peak list of at least one peak, a numeric exact
\* mass and, if any, a dict of metadata
WellFormedEntry(formula_data) ==
    /\ formula_data.type = "dict"
    /\ DictGet(formula_data, "mf", None).type = "str"
    /\ DictGet(formula_data, "mf", None).v # <<>>
    /\ Len(parse_xy_string(DictGet(formula_data, "xy", XyString(<<>>))).mz) > 0
    /\ IsNum(DictGet(formula_data, "em", Num(0)))
    /\ DictGet(formula_data, "_metadata", EmptyDict).type = "dict"

\* the formula is in the reference store and in the compound configuration
Loaded(chars) ==
    /\ chars \in DOMAIN reference_data
    /\ \E i \in DOMAIN compounds_config : compounds_config[i].formula = chars

\* the formulas the well-formed entries of the file name
WellFormedFormulas ==
    {data.formulas[k].mf.v : k \in {j \in DOMAIN data.formulas :
                                       WellFormedEntry(data.formulas[j])}}

\* C10 (as claimed): when the loader is done with a readable file, every
\* well-formed entry, before or after a bad one, is in the reference store and
\* in the compound configuration, and nothing else is.
C10_BadEntriesSkipped ==
    (pc = "loaded" /\ data.type = "json") =>
        /\ \A chars \in WellFormedFormulas : Loaded(chars)
        /\ DOMAIN reference_data \subseteq WellFormedFormulas
        /\ \A i \in DOMAIN compounds_config :
               compounds_config[i].formula \in WellFormedFormulas

(***************************************************************************)
(* SpecValidator: the validator called on a store of any content           *)
(***************************************************************************)
\* a pattern without peaks, as parse_xy_string returns it for "xy": ""
ZeroPeakPattern(config) == Pattern(<<>>, <<>>, config.compound_name, config.target_mz)

ValidatorStores(config) ==
    {StoreOf(config, p) : p \in PatternsFor(config) \cup {ZeroPeakPattern(config)}}
        \cup {EmptyStore}

InitValidator ==
    /\ pc = "validate_against_reference"
    /\ mz_array = <<>> /\ intensity_array = <<>>
    /\ target_mz = 0 /\ tolerance = 0
    /\ compound_config \in Catalog
    /\ reference_data \in ValidatorStores(compound_config)
    /\ \E off \in CandidateOffsets, inten \in CandidateIntensities :
          detection = Detection(compound_config.target_mz.v + off, inten, 1,
                                compound_config.target_mz.v)
    /\ corrected_peak = None /\ validation = None /\ earlier = None
    /\ SweepIdle /\ RunIdle /\ LoadIdle /\ PlotterIdle

NextValidator == CallValidate

SpecValidator == InitValidator /\ [][NextValidator]_vars

(***************************************************************************)
(* Properties of the validator (SpecValidator)                             *)
(***************************************************************************)
\* no pattern is stored for the compound
PatternAbsent == compound_config.formula \notin DOMAIN reference_data

\* the pattern stored for the compound has no peak
PatternZeroPeak ==
    /\ compound_config.formula \in DOMAIN reference_data
    /\ Len(reference_data[compound_config.formula].mz) = 0

HasMainPeakInTolerance(ref, det, config) ==
    LET mz_shift == det.mz - ref.mz[ArgMax(ref.intensity)] IN
    \E k \in DOMAIN ref.mz :
        /\ 2 * ref.intensity[k] >= SeqMax(ref.intensity)
        /\ Abs(det.mz - (ref.mz[k] + mz_shift)) <= config.mz_tolerance_validation

\* C12 (as claimed): against a pattern of at least one peak the validator
\* records a main-peak match exactly when the pattern has a peak of at least
\* 50% within the validation tolerance, hence for every candidate.
C12_MainPeakMatchRule ==
    (pc = "returned_validation" /\ ~PatternAbsent /\ ~PatternZeroPeak) =>
        /\ validation.type = "validated"
        /\ validation.validation.main_peak_match
              <=> HasMainPeakInTolerance(reference_data[compound_config.formula],
                                         detection, compound_config)
        /\ validation.validation.main_peak_match

\* the high-threshold class: TOPSe by name or formula, TOP by name
HighThresholdClass(config) ==
    \/ Contains(S_TOPSe, config.compound_name)
    \/ Contains(F_C24H52PSe, config.formula)
    \/ (Contains(S_TOP, config.compound_name) /\ ~Contains(S_TOPSe, config.compound_name))

\* C13: the validator returns for a compound of any class, and a candidate
\* within the mass accuracy is accepted exactly from 2000 on for the
\* high-threshold class and exactly from 1000 on for every other compound.
C13_ClassThresholds ==
    (pc = "returned_validation" /\ ~PatternAbsent /\ ~PatternZeroPeak) =>
        /\ ~IsRaise(validation)
        /\ detection.mz_error_ppm < 300 =>
              (validation.is_valid <=>
                  detection.intensity >= (IF HighThresholdClass(compound_config)
                                          THEN 2000 ELSE 1000))

\* a compound of unknown class (its name is its formula) accepted at 1000
C13_Witness ==
    /\ pc = "returned_validation"
    /\ compound_config = CfgHeavy
    /\ ~HighThresholdClass(compound_config)
    /\ ~PatternAbsent
    /\ detection.intensity = 1000
    /\ validation.type = "validated" /\ validation.is_valid

(***************************************************************************)
(* Properties of the order of the sweep (SpecSweep)                        *)
(***************************************************************************)
\* C14 (as claimed): within the sweep of one compound the locator examines
\* every MS1 spectrum exactly once and in sequence order: no spectrum is
\* examined twice, none before its predecessors, and when the compound's
\* outcome is stored every spectrum has been examined.
C14_EachSpectrumOnce ==
    /\ \A p \in DOMAIN examined : examined[p] <= 1
    /\ \A p \in DOMAIN examined :
           examined[p] >= 1 => \A j \in 1..(p[2] - 1) : examined[<<p[1], j>>] >= 1
    /\ \A p \in DOMAIN examined :
           compounds_config[p[1]].formula \in DOMAIN results => examined[p] = 1

(***************************************************************************)
(* Properties of the recorded outcomes (SpecRun)                           *)
(***************************************************************************)
\* C15: an outcome stored in analysis_results for a (sample, compound) pair
\* is final: every later step of the run leaves it in place and unchanged.
C15_OutcomeIsFinal ==
    [][\A s \in DOMAIN analysis_results :
          \A f \in DOMAIN analysis_results[s] :
              /\ s \in DOMAIN analysis_results'
              /\ f \in DOMAIN analysis_results'[s]
              /\ analysis_results'[s][f] = analysis_results[s][f]]_vars

\* the run is over; the first sample holds the detection of phase 1 next to
\* the outcome phase 2 merged into it, and later samples were processed
C15_Witness ==
    /\ pc = "done"
    /\ compounds_config = <<CfgTOP, CfgOther>>
    /\ SAMPLE_MAPPING[1] \in DOMAIN analysis_results
    /\ DOMAIN analysis_results[SAMPLE_MAPPING[1]] = {F_C24H52P, F_C18H37N}
    /\ analysis_results[SAMPLE_MAPPING[1]][F_C24H52P] # None
    /\ SAMPLE_MAPPING[3] \in DOMAIN analysis_results
    /\ successful_plots # <<>>

\* an outcome, a detection or None, is recorded for the pair
OutcomeRecorded(sample_name, formula) ==
    /\ sample_name \in DOMAIN analysis_results
    /\ formula \in DOMAIN analysis_results[sample_name]
    /\ \/ analysis_results[sample_name][formula] = None
       \/ "optimal_detection" \in DOMAIN analysis_results[sample_name][formula]

\* C16 (as claimed): when analyze_all_samples ends, an outcome is recorded in
\* analysis_results for every sample of SAMPLE_MAPPING and every loaded
\* compound.
C16_EveryPairTerminal ==
    pc = "done" =>
        \A i \in DOMAIN SAMPLE_MAPPING : \A j \in DOMAIN compounds_config :
            OutcomeRecorded(SAMPLE_MAPPING[i], compounds_config[j].formula)

\* the nine columns written for a compound
SavedColumns ==
    {"detected", "optimal_scan", "optimal_rt", "optimal_mz", "optimal_intensity",
     "mass_error_ppm", "validation_matches", "validation_score", "total_detections"}

\* what analysis_results holds for the pair, None when it holds nothing
OutcomeOf(sample_name, formula) ==
    DictGet(analysis_results[sample_name], formula, None)

\* the columns of the row agree with the outcome of the pair
ColumnsAgree(cols, r) ==
    /\ DOMAIN cols = SavedColumns
    /\ IF r = None
       THEN /\ cols.detected = FALSE
            /\ cols.total_detections = 0
            /\ \A c \in SavedColumns \ {"detected", "total_detections"} : cols[c] = None
       ELSE /\ cols.detected = TRUE
            /\ cols.optimal_scan = r.optimal_detection.scan
            /\ cols.optimal_rt = r.optimal_detection.rt
            /\ cols.optimal_mz = r.optimal_detection.mz
            /\ cols.optimal_intensity = r.optimal_detection.intensity
            /\ cols.mass_error_ppm = r.optimal_detection.mz_error_ppm
            /\ cols.validation_matches = r.optimal_detection.validation.match_count
            /\ cols.validation_score = r.optimal_detection.validation.validation_score
            /\ cols.total_detections = r.detection_count

\* C17: the saved table has exactly one row for each sample of
\* analysis_results; every row has the nine columns of every loaded compound,
\* filled from the optimal detection and the detection count of the pair, or
\* with False, 0 and nulls when the pair has no result.
C17_OneCompleteRowPerSample ==
    pc = "done" =>
        /\ \A s \in DOMAIN analysis_results :
               Cardinality({k \in DOMAIN results_data : results_data[k].Sample = s}) = 1
        /\ \A k \in DOMAIN results_data :
               /\ results_data[k].Sample \in DOMAIN analysis_results
               /\ DOMAIN results_data[k].columns =
                      {compounds_config[j].formula : j \in DOMAIN compounds_config}
               /\ \A f \in DOMAIN results_data[k].columns :
                      ColumnsAgree(results_data[k].columns[f],
                                   OutcomeOf(results_data[k].Sample, f))

\* a table of two rows; in the first TOP is without result and the other
\* compound is detected
C17_Witness ==
    /\ pc = "done"
    /\ compounds_config = <<CfgTOP, CfgOther>>
    /\ Len(results_data) = 2
    /\ mzml_files[1] = LowFile
    /\ results_data[1].columns[F_C24H52P].detected = FALSE
    /\ results_data[1].columns[F_C24H52P].total_detections = 0
    /\ results_data[1].columns[F_C18H37N].detected = TRUE
    /\ results_data[1].columns[F_C18H37N].optimal_intensity = 1000

(***************************************************************************)
(* Properties of the stored patterns (SpecLoad)                            *)
(***************************************************************************)
\* C18 (as claimed): every pattern in the reference store has m/z and
\* intensity arrays of one length, at least 1, in ascending order of m/z.
C18_PatternsNonEmptySorted ==
    \A f \in DOMAIN reference_data :
        /\ Len(reference_data[f].mz) = Len(reference_data[f].intensity)
        /\ Len(reference_data[f].mz) >= 1
        /\ \A k \in 1..(Len(reference_data[f].mz) - 1) :
               reference_data[f].mz[k] <= reference_data[f].mz[k + 1]

(***************************************************************************)
(* The worked scenarios of find_true_peak_maximum (SpecCalls)              *)
(***************************************************************************)
\* find_true_peak_maximum has returned from the scenario call
ScenarioReturned(tol) ==
    /\ pc = "returned_peak"
    /\ mz_array = Scenario.mz_array /\ intensity_array = Scenario.intensity_array
    /\ target_mz = Scenario.target_mz /\ tolerance = tol

\* C19 (amended): with tolerance 0.1 the window holds the two samples 283.26
\* and 283.27; the call returns m/z 283.27 with intensity 1200 from the
\* fallback to the simple maximum, marked corrected = false.
C19_ScenarioOne ==
    ScenarioReturned(1000) => corrected_peak = Peak(2832700, 1200, FALSE)

C19_Witness ==
    /\ ScenarioReturned(1000)
    /\ Len(WindowIndices(mz_array, target_mz, tolerance)) = 2
    /\ corrected_peak.mz = 2832700 /\ corrected_peak.intensity = 1200

\* C19 (as claimed): the call returns m/z 283.27 with intensity 1200, marked
\* corrected = true.
C19_AsClaimed ==
    ScenarioReturned(1000) => corrected_peak = Peak(2832700, 1200, TRUE)

\* C20 (amended): with tolerance 0.005 the window [283.2587, 283.2687] holds
\* the sample at 283.26; the call returns m/z 283.26 with intensity 1000,
\* marked corrected = false.
C20_ScenarioTwo ==
    ScenarioReturned(50) => corrected_peak = Peak(2832600, 1000, FALSE)

C20_Witness ==
    /\ ScenarioReturned(50)
    /\ WindowIndices(mz_array, target_mz, tolerance) = <<2>>
    /\ corrected_peak # None

\* C20 (as claimed): with tolerance 0.005 the window is empty and the call
\* returns absent.
C20_AsClaimed ==
    ScenarioReturned(50) => corrected_peak = None

(***************************************************************************)
(* Independence of the recorded outcomes (SpecRun)                         *)
(***************************************************************************)
\* what the sweep of the file records for the compound when it is the only
\* compound swept: a detection, None, or nothing (the sweep returned {})
SoloOutcome(file, config) ==
    DictGet(analyze_sample_for_compounds(reference_data, file, <<config>>).value,
            config.formula, [type |-> "nothing"])

\* what analysis_results holds for the pair
RecordedOutcome(sample_name, formula) ==
    IF sample_name \in DOMAIN analysis_results
    THEN DictGet(analysis_results[sample_name], formula, [type |-> "nothing"])
    ELSE [type |-> "nothing"]

\* C21 (as claimed): the outcome recorded for a (sample, compound) pair is
\* the one that sample's spectra, that compound's configuration and its
\* reference pattern give on their own, whatever else is processed with it.
C21_OutcomeOfPairAlone ==
    pc = "done" =>
        \A i \in DOMAIN SAMPLE_MAPPING : \A j \in DOMAIN compounds_config :
            mzml_files[i] # MissingFile =>
                RecordedOutcome(SAMPLE_MAPPING[i], compounds_config[j].formula)
                    = SoloOutcome(mzml_files[i], compounds_config[j])

(***************************************************************************)
(* Properties of the plots (SpecRun)                                       *)
(***************************************************************************)
\* a plot of the pair was saved
Plotted(sample_name, formula) ==
    \E k \in DOMAIN successful_plots :
        successful_plots[k] = PlotKey(sample_name, formula)

\* C22 (as claimed): a plot is saved for a (sample, compound) pair only if
\* the pair has a validated optimal detection whose validation recorded at
\* least the required number of isotope-pattern matches.
C22_PlotsOnlyForMatches ==
    \A i \in DOMAIN SAMPLE_MAPPING : \A j \in DOMAIN compounds_config :
        Plotted(SAMPLE_MAPPING[i], compounds_config[j].formula) =>
            LET r == RecordedOutcome(SAMPLE_MAPPING[i], compounds_config[j].formula)
            IN  /\ r.type = "result"
                /\ r.optimal_detection.validation.is_valid
                /\ r.optimal_detection.validation.match_count
                       >= r.optimal_detection.validation.required_matches

CallOutputs ==
    LET peak == find_true_peak_maximum(mz_array, intensity_array, target_mz, tolerance)
        det  == detect_compound_in_spectrum(mz_array, intensity_array, compound_config)
    IN  [corrected_peak |-> peak,
         detection      |-> det,
         validation     |-> IF det.type = "detection"
                            THEN validate_against_reference(reference_data, det,
                                                           compound_config)
                            ELSE None]

RepeatSpectra == SpectraOfLen(2) \cup SpectraOfLen(4)
RepeatConfigs == {CfgOther, CfgTOP}
RepeatFiles == {CorruptFile, HitFile, MissFile, LowFile}

InitRepeat ==
    /\ pc = "first_calls"
    /\ \E sp \in RepeatSpectra :
          /\ mz_array = sp.mz_array
          /\ intensity_array = sp.intensity_array
    /\ target_mz = TargetMz
    /\ tolerance = MZ_TOLERANCE
    /\ compound_config \in RepeatConfigs
    /\ reference_data \in {StoreFor(<<compound_config>>), EmptyStore}
    /\ detection = None /\ corrected_peak = None /\ validation = None /\ earlier = None
    /\ SweepIdle /\ RunIdle /\ LoadIdle /\ PlotterIdle

FirstCalls ==
    /\ pc = "first_calls"
    /\ \E out \in {CallOutputs} :
          /\ corrected_peak' = out.corrected_peak
          /\ detection' = out.detection
          /\ validation' = out.validation
    /\ pc' = "between"
    /\ UNCHANGED <<mz_array, intensity_array, target_mz, tolerance, compound_config,
                   earlier, reference_data, sweepVars, runVars, loadVars, plotterVars>>

\* another sample is swept for the compound by the same detector
SweepBetween ==
    /\ pc = "between"
    /\ \E file \in RepeatFiles :
       \E r \in {analyze_sample_for_compounds(reference_data, file, <<compound_config>>)} :
          /\ mzml_file' = file
          /\ returned' = r
          /\ results' = r.value
    /\ pc' = "second_calls"
    /\ UNCHANGED <<locVars, reference_data, compounds_config, ms1_spectra, formula_idx,
                   cursor, all_detections, detection_count, examined, runVars, loadVars, plotterVars>>

SecondCalls ==
    /\ pc = "second_calls"
    /\ earlier' = [corrected_peak |-> corrected_peak, detection |-> detection,
                   validation |-> validation]
    /\ \E out \in {CallOutputs} :
          /\ corrected_peak' = out.corrected_peak
          /\ detection' = out.detection
          /\ validation' = out.validation
    /\ pc' = "repeated"
    /\ UNCHANGED <<mz_array, intensity_array, target_mz, tolerance, compound_config,
                   reference_data, sweepVars, runVars, loadVars, plotterVars>>

NextRepeat == FirstCalls \/ SweepBetween \/ SecondCalls

SpecRepeat == InitRepeat /\ [][NextRepeat]_vars

WindowIntensity == Pick(intensity_array, WindowIndices(mz_array, target_mz, tolerance))
WindowMz == Pick(mz_array, WindowIndices(mz_array, target_mz, tolerance))

\* the maxima find_peaks keeps: the height is applied first, then the
\* distance among the maxima of sufficient height, then the prominence among
\* the maxima the distance has left
KeptMaxima ==
    IF Len(WindowIntensity) > 3
    THEN Range(find_peaks(WindowIntensity, SeqMax(WindowIntensity), 10, 3,
                          SeqMax(WindowIntensity), 20))
    ELSE {}

\* the interior local maxima that meet the height and the prominence bound
QualifiedMaxima ==
    IF Len(WindowIntensity) > 3
    THEN {p \in Range(LocalMaxima(WindowIntensity)) :
             /\ 10 * WindowIntensity[p] >= SeqMax(WindowIntensity)
             /\ 20 * Prominence(WindowIntensity, p) >= SeqMax(WindowIntensity)}
    ELSE {}

\* the peak is the sample at index p of the window
IsWindowSample(p) ==
    /\ corrected_peak.mz = WindowMz[p]
    /\ corrected_peak.intensity = WindowIntensity[p]

\* the returned peak is the highest kept maximum, marked corrected, or, when
\* nothing is kept, the first sample of maximal intensity, marked uncorrected
PeakFollows(accepted) ==
    IF accepted # {}
    THEN /\ corrected_peak.corrected
         /\ \E p \in accepted :
               /\ IsWindowSample(p)
               /\ \A q \in accepted : WindowIntensity[q] <= WindowIntensity[p]
    ELSE /\ ~corrected_peak.corrected
         /\ \E k \in DOMAIN WindowIntensity :
               /\ IsWindowSample(k)
               /\ WindowIntensity[k] = SeqMax(WindowIntensity)
               /\ \A j \in 1..(k - 1) : WindowIntensity[j] < WindowIntensity[k]

\* C25 (amended): the result is marked corrected exactly when the window
\* holds more than 3 samples and find_peaks keeps a maximum after applying
\* height, distance and prominence one after the other; the peak is then the
\* highest kept maximum, otherwise the first sample of maximal intensity.
C25_CorrectedRule ==
    (pc = "returned_peak" /\ WindowIntensity # <<>>) => PeakFollows(KeptMaxima)

\* an uncorrected result although a maximum meets height and prominence: it
\* lost to a higher neighbour that the prominence bound then removed
C25_Witness ==
    /\ pc = "returned_peak"
    /\ Len(WindowIntensity) > 3
    /\ KeptMaxima = {}
    /\ QualifiedMaxima # {}
    /\ ~corrected_peak.corrected

\* C25 (as claimed): the result is marked corrected exactly when the window
\* holds more than 3 samples and some interior local maximum meets the three
\* constraints, and the peak is then the highest such maximum.
C25_AsClaimed ==
    (pc = "returned_peak" /\ WindowIntensity # <<>>) => PeakFollows(QualifiedMaxima)

(***************************************************************************)
(* Properties of the sweep-time locator (SpecCalls)                        *)
(***************************************************************************)
\* the window of the sweep-time locator for the compound of the call
DetectWindow ==
    {k \in DOMAIN mz_array :
        /\ mz_array[k] >= compound_config.target_mz.v - compound_config.mz_tolerance
        /\ mz_array[k] <= compound_config.target_mz.v + compound_config.mz_tolerance}

\* the absolute floor of the locator: 2000 for the names with 'TOP', else 1000
LocatorFloor ==
    IF Contains(S_TOP, compound_config.compound_name) THEN 2000 ELSE 1000

\* C26: the sweep-time locator returns absent exactly when its window is
\* empty or holds no sample of at least the floor; a returned candidate has
\* an intensity of at least the floor and reports the ppm distance of its m/z
\* from the target (whole ppm).
C26_AbsentBelowFloor ==
    pc = "returned_detection" =>
        /\ detection = None <=>
               (\A k \in DetectWindow : intensity_array[k] < LocatorFloor)
        /\ detection # None =>
               /\ detection.type = "detection"
               /\ detection.intensity >= LocatorFloor
               /\ detection.mz_error_ppm * compound_config.target_mz.v
                      <= Abs(detection.mz - compound_config.target_mz.v) * 1000000
               /\ (detection.mz_error_ppm + 1) * compound_config.target_mz.v
                      > Abs(detection.mz - compound_config.target_mz.v) * 1000000

\* absent for TOP although the window holds a sample of intensity 1000
C26_Witness ==
    /\ pc = "returned_detection"
    /\ compound_config = CfgTOP
    /\ detection = None
    /\ \E k \in DetectWindow : intensity_array[k] = 1000

(***************************************************************************)
(* Properties of the forced TOP plot (SpecRun)                             *)
(***************************************************************************)
\* a plot of the pair was attempted: it is in one of the two lists
PlotAttempted(sample_name, formula) ==
    \/ Plotted(sample_name, formula)
    \/ \E k \in DOMAIN failed_plots :
           failed_plots[k] = PlotKey(sample_name, formula)

\* C27 (as claimed): once TOP was validated in the PbSe1 sample, its
\* retention time is collected, and a PbSe7 or PbSe10 sample that phase 1
\* has analysed without a valid TOP detection still gets a TOP plot attempt.
C27_ForcedTopPlot ==
    \A j \in DOMAIN compounds_config :
        LET config == compounds_config[j] IN
        (/\ IsTopName(config.compound_name)
         /\ <<1, 1>> \in processed
         /\ RecordedOutcome(SAMPLE_MAPPING[1], config.formula).type = "result")
        => /\ config.formula \in DOMAIN top_rt_from_pbse1
           /\ \A i \in DOMAIN SAMPLE_MAPPING :
                  (/\ i > 1
                   /\ <<1, i>> \in processed
                   /\ mzml_files[i] # MissingFile
                   /\ RecordedOutcome(SAMPLE_MAPPING[i], config.formula).type # "result")
                  => PlotAttempted(SAMPLE_MAPPING[i], config.formula)

(***************************************************************************)
(* The floor of the locator against the threshold of the validator         *)
(* (SpecCalls)                                                             *)
(***************************************************************************)
\* C28 (as claimed): for the compound of a validator call the floor of the
\* sweep-time locator equals the threshold of the validator, so a candidate
\* of at least the floor that is within the mass accuracy is accepted.
C28_FloorEqualsThreshold ==
    (pc = "returned_validation" /\ validation.type = "validated"
       /\ validation.validation.type = "validation") =>
        /\ DetectMinIntensity(compound_config) = ValidateMinIntensity(compound_config)
        /\ (/\ detection.intensity >= DetectMinIntensity(compound_config)
            /\ validation.validation.mass_accuracy_ok)
           => validation.is_valid

\* C29 (as claimed): a candidate returned by the sweep-time locator has the
\* largest intensity of all samples inside the window, edges included.
C29_CandidateIsWindowMaximum ==
    (pc = "returned_detection" /\ detection # None) =>
        \A k \in DetectWindow : intensity_array[k] <= detection.intensity

(***************************************************************************)
(* SpecPlotter: CleanCompoundPlotter.plot_all_compounds                    *)
(* (02_Python_Analysis_Scripts/Plot_Compounds_Validation_Analysis.py)      *)
(***************************************************************************)
S_Oleic_acid_key == <<"O", "l", "e", "i", "c", "_", "a", "c", "i", "d">>
S_Blank_1        == <<"B", "l", "a", "n", "k", "_", "1">>

\* PLOT_CONFIG['peak_detection_tolerance'] = 0.1 Da, in units of 0.005 Da
PEAK_DETECTION_TOLERANCE == 20

\* COMPOUNDS in the order of the dict; target_mz in units of 0.005 Da
COMPOUNDS ==
    << [compound_name |-> S_Oleic_acid_key, formula |-> F_C18H35O2,  target_mz |-> 56653],
       [compound_name |-> S_TOP,            formula |-> F_C24H52P,   target_mz |-> 74276],
       [compound_name |-> S_TOPO,           formula |-> F_C24H52OP,  target_mz |-> 77475],
       [compound_name |-> S_TOPSe,          formula |-> F_C24H52PSe, target_mz |-> 90259] >>

\* the characters of the sample names in the order of their code points
CodePoints ==
    <<"0", "1", "7", "B", "P", "S", "_", "a", "b", "e", "k", "l", "n", "o", "s">>

CodePoint(c) == CHOOSE k \in DOMAIN CodePoints : CodePoints[k] = c

\* a < b for two Python strings
RECURSIVE StrLess(_, _)
StrLess(a, b) ==
    IF b = <<>> THEN FALSE
    ELSE IF a = <<>> THEN TRUE
    ELSE IF a[1] # b[1] THEN CodePoint(a[1]) < CodePoint(b[1])
    ELSE StrLess(Tail(a), Tail(b))

\* sorted(keys)
RECURSIVE SortedKeys(_)
SortedKeys(keys) ==
    IF keys = {} THEN <<>>
    ELSE LET first == CHOOSE k \in keys : \A o \in keys \ {k} : StrLess(k, o)
         IN  <<first>> \o SortedKeys(keys \ {first})

\* an entry of validated_results (lines 197-203, 225-231)
DetectionInfo(scan) ==
    [type |-> "info", scan |-> scan, rt |-> 10 * scan, validated |-> TRUE]

\* rows of validated_results: as the two result files give them
RowAllNone ==
    Put(Put(Put(EmptyStore, S_Oleic_acid_key, None), S_TOP, None), S_TOPO, None)
RowMixed ==
    Put(Put(Put(Put(EmptyStore, S_Oleic_acid_key, DetectionInfo(1)), S_TOP, None),
            S_TOPO, DetectionInfo(2)), S_TOPSe, DetectionInfo(3))
RowAll ==
    Put(Put(Put(Put(EmptyStore, S_Oleic_acid_key, DetectionInfo(1)), S_TOP, DetectionInfo(1)),
            S_TOPO, DetectionInfo(1)), S_TOPSe, DetectionInfo(1))
RowTopseOnly == Put(EmptyStore, S_TOPSe, DetectionInfo(1))
PlotterRows == {RowAllNone, RowMixed, RowAll, RowTopseOnly}

\* most samples in the result files
MaxSamples == 2

\* sample names of the result files: those of SAMPLE_MAPPING and one more
PlotterSamples == {SAMPLE_MAPPING[i] : i \in DOMAIN SAMPLE_MAPPING} \cup {S_Blank_1}

\* scan 1 has a sample at every target, scan 2 has none near a target
PlotterFile ==
    FileOf(<<[ms_level |-> 1, id_ok |-> TRUE,
              sp |-> Spectrum(<<56653, 74276, 77475, 90259>>, <<2000, 2000, 2000, 2000>>)],
             [ms_level |-> 1, id_ok |-> TRUE,
              sp |-> Spectrum(<<20000>>, <<2000>>)]>>)
PlotterFiles == {MissingFile, CorruptFile, PlotterFile}

\* lines 575-585: the file of a sample, None when it is not mapped or missing
get_mzml_file(files, sample_name) ==
    IF \E i \in DOMAIN SAMPLE_MAPPING : SAMPLE_MAPPING[i] = sample_name
    THEN LET i == CHOOSE i \in DOMAIN SAMPLE_MAPPING : SAMPLE_MAPPING[i] = sample_name
         IN  IF files[i] = MissingFile THEN None ELSE files[i]
    ELSE None

\* lines 301-332: the first MS1 spectrum with the scan number, None when
\* there is none or the file cannot be read
extract_spectrum_at_scan(mzml, target_scan) ==
    IF mzml.type = "corrupt" THEN None
    ELSE LET hits == {k \in DOMAIN mzml.spectra :
                         /\ mzml.spectra[k].ms_level = 1
                         /\ mzml.spectra[k].scan = target_scan}
         IN  IF hits = {} THEN None
             ELSE LET k == CHOOSE k \in hits : \A o \in hits : k <= o
                  IN  [mz_array        |-> mzml.spectra[k].mz_array,
                       intensity_array |-> mzml.spectra[k].intensity_array,
                       rt              |-> mzml.spectra[k].rt,
                       scan_id         |-> target_scan]

\* lines 544-573: the file name of the saved plot, None, or an exception of
\* PlotGenerator (reference file, drawing, saving) as the environment decides
plot_single_compound(files, sample_name, config, detection_info, attempt) ==
    LET mzml == get_mzml_file(files, sample_name) IN
    IF mzml = None THEN None
    ELSE LET spectrum_data == extract_spectrum_at_scan(mzml, detection_info.scan) IN
         IF spectrum_data = None THEN None
         ELSE LET peak == find_true_peak_maximum(spectrum_data.mz_array,
                                                 spectrum_data.intensity_array,
                                                 config.target_mz,
                                                 PEAK_DETECTION_TOLERANCE)
              IN  IF peak = None THEN None
                  ELSE IF attempt = "raised" THEN Raise("Exception")
                  ELSE [type |-> "filename",
                        name |-> PlotKey(sample_name, config.formula)]

\* mutant: a plot that returns no file name is not counted at all
CountPlot_DropNone(filename, key, ps) ==
    IF IsRaise(filename)
    THEN [ps EXCEPT !.failed_plots = Append(@, key)]
    ELSE IF filename = None THEN ps
    ELSE [ps EXCEPT !.successful_plots = Append(@, key), !.plot_count = @ + 1]

\* lines 526-537: the pair goes to one of the two lists
CountPlot(filename, key, ps) ==
    IF IsRaise(filename)
    THEN [ps EXCEPT !.failed_plots = Append(@, key)]
    ELSE IF filename = None
    THEN [ps EXCEPT !.failed_plots = Append(@, key)]
    ELSE [ps EXCEPT !.successful_plots = Append(@, key), !.plot_count = @ + 1]

\* lines 523-539: the body of the inner loop for one compound of one sample
PlotEntry(files, results_of, sample_name, config, attempt, ps) ==
    LET detection_info == DictGet(results_of[sample_name],
                                  config.compound_name, None)
    IN  IF detection_info = None THEN ps
        ELSE CountPlot(plot_single_compound(files, sample_name, config,
                                            detection_info, attempt),
                       PlotKey(sample_name, config.compound_name), ps)

InitPlotter ==
    /\ pc = "plot_all_compounds"
    /\ \E names \in {n \in SUBSET PlotterSamples : Cardinality(n) <= MaxSamples} :
          validated_results \in [names -> PlotterRows]
    /\ mzml_files \in [DOMAIN SAMPLE_MAPPING -> PlotterFiles]
    /\ sample_idx = 1 /\ compound_idx = 1
    /\ successful_plots = <<>> /\ failed_plots = <<>> /\ plot_count = 0
    /\ analysis_results = EmptyStore /\ phase = 0
    /\ top_rt_from_pbse1 = EmptyStore /\ processed = {} /\ results_data = <<>>
    /\ reference_data = EmptyStore
    /\ LocIdle /\ SweepIdle /\ LoadIdle

\* sorted(self.data_loader.validated_results.keys())
PlotterOrder == SortedKeys(DOMAIN validated_results)

\* lines 519-539: one turn of the inner loop, then the next compound or sample
PlotPair ==
    /\ pc = "plot_all_compounds"
    /\ sample_idx <= Len(PlotterOrder)
    /\ \E attempt \in PlotOutcomes :
       \E ps \in {PlotEntry(mzml_files, validated_results, PlotterOrder[sample_idx],
                            COMPOUNDS[compound_idx], attempt,
                            [successful_plots |-> successful_plots,
                             failed_plots     |-> failed_plots,
                             plot_count       |-> plot_count])} :
          /\ successful_plots' = ps.successful_plots
          /\ failed_plots' = ps.failed_plots
          /\ plot_count' = ps.plot_count
    /\ IF compound_idx < Len(COMPOUNDS)
       THEN compound_idx' = compound_idx + 1 /\ UNCHANGED sample_idx
       ELSE compound_idx' = 1 /\ sample_idx' = sample_idx + 1
    /\ UNCHANGED <<pc, validated_results, mzml_files, analysis_results, phase,
                   top_rt_from_pbse1, processed, results_data, reference_data,
                   locVars, sweepVars, loadVars>>

\* lines 541-542: the summary is printed and plot_count returned
ReturnPlotCount ==
    /\ pc = "plot_all_compounds"
    /\ sample_idx > Len(PlotterOrder)
    /\ returned' = Returned(plot_count, FALSE)
    /\ pc' = "returned_plot_count"
    /\ UNCHANGED <<mzml_file, compounds_config, ms1_spectra, formula_idx, cursor,
                   all_detections, detection_count, results, examined,
                   reference_data, locVars, runVars, loadVars, plotterVars>>

NextPlotter == PlotPair \/ ReturnPlotCount

SpecPlotter == InitPlotter /\ [][NextPlotter]_vars

(***************************************************************************)
(* Properties of plot_all_compounds (SpecPlotter)                          *)
(***************************************************************************)
\* the turn of the inner loop for the j-th compound of the i-th sample is over
PairDone(i, j) ==
    \/ i < sample_idx
    \/ i = sample_idx /\ j < compound_idx

\* how often a key is in a list
CountOf(list, key) == Cardinality({k \in DOMAIN list : list[k] = key})

\* validated_results holds a detection entry for the pair
HasValidatedEntry(sample_name, compound_name) ==
    /\ compound_name \in DOMAIN validated_results[sample_name]
    /\ validated_results[sample_name][compound_name] # None

\* the file of the sample is there and readable, it has an MS1 spectrum with
\* the scan number of the entry, and that spectrum has a sample within the
\* peak detection tolerance of the target
Plottable(sample_name, compound) ==
    \E i \in DOMAIN SAMPLE_MAPPING :
        /\ SAMPLE_MAPPING[i] = sample_name
        /\ mzml_files[i].type = "mzml"
        /\ \E k \in DOMAIN mzml_files[i].spectra :
              LET sp == mzml_files[i].spectra[k] IN
              /\ sp.ms_level = 1
              /\ sp.scan = validated_results[sample_name][compound.compound_name].scan
              /\ \E q \in DOMAIN sp.mz_array :
                    Abs(sp.mz_array[q] - compound.target_mz) <= PEAK_DETECTION_TOLERANCE

\* C30: in plot_all_compounds every (sample, compound) pair with a validated
\* entry whose turn is over is in exactly one of successful_plots and
\* failed_plots, exactly once, and in failed_plots whenever the file is
\* missing, the scan is not found or the peak window is empty; a pair without
\* a validated entry is in neither list; plot_count, and the value returned,
\* is the number of successful plots.
C30_EachPairCountedOnce ==
    pc \in {"plot_all_compounds", "returned_plot_count"} =>
        /\ plot_count = Len(successful_plots)
        /\ pc = "returned_plot_count" => returned.value = Len(successful_plots)
        /\ \A i \in DOMAIN PlotterOrder : \A j \in DOMAIN COMPOUNDS :
              LET sample_name == PlotterOrder[i]
                  key == PlotKey(sample_name, COMPOUNDS[j].compound_name)
                  counted == PairDone(i, j)
                                 /\ HasValidatedEntry(sample_name, COMPOUNDS[j].compound_name)
              IN  /\ CountOf(successful_plots, key) + CountOf(failed_plots, key)
                         = IF counted THEN 1 ELSE 0
                  /\ (counted /\ ~Plottable(sample_name, COMPOUNDS[j]))
                         => CountOf(failed_plots, key) = 1
        /\ \A k \in DOMAIN successful_plots \cup DOMAIN failed_plots :
              \E i \in DOMAIN PlotterOrder : \E j \in DOMAIN COMPOUNDS :
                  LET key == PlotKey(PlotterOrder[i], COMPOUNDS[j].compound_name)
                  IN  (k \in DOMAIN successful_plots /\ successful_plots[k] = key)
                      \/ (k \in DOMAIN failed_plots /\ failed_plots[k] = key)

\* the call returned with a saved plot, a plot that raised, a plot whose scan
\* was not found and a pair without a validated entry
C30_Witness ==
    /\ pc = "returned_plot_count"
    /\ returned.value >= 1
    /\ Len(failed_plots) >= 2
    /\ \E i \in DOMAIN PlotterOrder :
          /\ ~HasValidatedEntry(PlotterOrder[i], S_TOP)
          /\ HasValidatedEntry(PlotterOrder[i], S_TOPSe)
          /\ ~Plottable(PlotterOrder[i], COMPOUNDS[4])
          /\ Plottable(PlotterOrder[i], COMPOUNDS[1])
          /\ CountOf(failed_plots, PlotKey(PlotterOrder[i], S_Oleic_acid_key)) = 1

====
